---------------------------- MODULE Spec2Model ----------------------------
(***************************************************************************)
(* SmartSpend: the in-memory store (server/storage.ts, MemStorage) and the *)
(* request handlers of server/routes.ts that read and write transactions,  *)
(* budgets, categories and alerts: the budget-alert evaluator, the         *)
(* financial summary and the budgets-with-spent projection.                *)
(*                                                                         *)
(* Each Map of MemStorage is a sequence of entries in insertion order (the *)
(* iteration order of a JavaScript Map); an entry carries its Map key and  *)
(* the fields of the stored object.  Money amounts are whole numbers, on   *)
(* which the sums of the handlers are exact; a quotient such as a          *)
(* percentage is the IEEE 754 double the division gives, and what is       *)
(* computed from it is rounded as a double is.  A date string "yyyy-mm-dd" *)
(* is the record [y, m, d]; `new Date(string)` is midnight UTC of that     *)
(* day, and its getMonth, getFullYear and setMonth work on the local date  *)
(* of the server's time zone, which is the day before in a zone behind     *)
(* UTC.  The zone is fixed when the server starts.                         *)
(* A handler is an async function: at each await it gives way, and the     *)
(* handlers of requests that have arrived together go on in turns.  The    *)
(* specifications of requests that arrive one after the other take a       *)
(* request in one step, from its arrival to the end of what it starts; the *)
(* upload of a CSV file, which waits for the file system twice, and the    *)
(* specifications of requests that arrive together (SpecAsync,             *)
(* SpecFailing, SpecCategories) take a handler from await to await.        *)
(* Fields no modelled handler reads (a transaction's description, a        *)
(* budget's period, createdAt, a category's type and color) are left out   *)
(* of the entries.                                                         *)
(***************************************************************************)
EXTENDS Integers, Sequences, FiniteSets

VARIABLES
    transactions,          \* MemStorage.transactions, in insertion order
    budgets,               \* MemStorage.budgets
    categories,            \* MemStorage.categories
    alerts,                \* MemStorage.alerts
    currentTransactionId,  \* the id counters of MemStorage
    currentBudgetId,
    currentCategoryId,
    currentAlertId,
    last,                  \* the request handled last and what it answered
    pending,               \* the requests that are between two awaits
    clock,                 \* the time new Date() gives, in milliseconds
    zone                   \* the time zone of the server, in hours ahead of UTC

vars == <<transactions, budgets, categories, alerts, currentTransactionId,
          currentBudgetId, currentCategoryId, currentAlertId, last,
          pending, clock, zone>>

stores == <<transactions, budgets, categories, alerts, currentTransactionId,
            currentBudgetId, currentCategoryId, currentAlertId>>

---------------------------------------------------------------------------
(* Bounds of the model *)

\* no transaction or budget is created once the id counters of the two maps
\* have handed out this many ids
MaxCreated == 2

---------------------------------------------------------------------------
(* A Map of MemStorage as the sequence of its entries *)

\* Map.set(key, value): a present key keeps its place, a new key is appended
MapSet(s, e) ==
    IF \E i \in 1..Len(s) : s[i].key = e.key
    THEN [i \in 1..Len(s) |-> IF s[i].key = e.key THEN e ELSE s[i]]
    ELSE Append(s, e)

\* Map.delete(key)
MapDelete(s, k) == SelectSeq(s, LAMBDA e : e.key # k)

\* Map.has(key)
MapHas(s, k) == \E i \in 1..Len(s) : s[i].key = k

\* Map.get(key), for a key the map has
MapGet(s, k) == s[CHOOSE i \in 1..Len(s) : s[i].key = k]

\* Array.from(map.keys())
Keys(s) == {s[i].key : i \in 1..Len(s)}

---------------------------------------------------------------------------
(* JavaScript Numbers.  An amount is a whole number, or NotANumber: what    *)
(* Number() and parseFloat() make of a text that is no number ("abc"); on   *)
(* whole numbers + and - are exact.  A quotient is an IEEE 754 double:      *)
(* s * m * 2^e with a sign s and 53 significant bits m, or 0, Infinity,     *)
(* -Infinity, NaN; every operation on it rounds its exact result to the     *)
(* nearest double, to the even one of two.  m is too long for one integer   *)
(* of the checker: it is a sequence of limbs of 15 bits, the lowest first,  *)
(* as is every whole number the arithmetic goes through.  Amounts are below *)
(* 2^16 in absolute value and quotients below 2^31, which leaves the        *)
(* subnormal and the overflowing doubles out.                               *)

\* NaN among the amounts; no amount of a request is this small
NotANumber == -1000000

IsNumber(a) == a # NotANumber

\* a + b and a - b on amounts: NaN when either is
Plus(a, b) == IF IsNumber(a) /\ IsNumber(b) THEN a + b ELSE NotANumber
Sub(a, b) == IF IsNumber(a) /\ IsNumber(b) THEN a - b ELSE NotANumber

\* a > 0 on an amount: false on NaN
IsPositive(a) == IsNumber(a) /\ a > 0

Abs(x) == IF x < 0 THEN -x ELSE x

Sign(x) == IF x < 0 THEN -1 ELSE IF x > 0 THEN 1 ELSE 0

\* the bits of a limb, and the base of the limbs
LimbBits == 15
Base == 2^LimbBits

RECURSIVE Strip(_)
\* n without its leading zero limbs
Strip(n) ==
    IF n = <<>> \/ n[Len(n)] # 0 THEN n ELSE Strip(SubSeq(n, 1, Len(n) - 1))

\* the limbs of a whole number 0 <= a < 2^30
FromInt(a) == Strip(<<a % Base, a \div Base>>)

\* the number of bits of n
BigBits(n) ==
    LET RECURSIVE BitLength(_)
        BitLength(v) == IF v = 0 THEN 0 ELSE 1 + BitLength(v \div 2)
    IN IF n = <<>> THEN 0 ELSE LimbBits * (Len(n) - 1) + BitLength(n[Len(n)])

\* limb i of n, the lowest being limb 1
Limb(n, i) == IF i <= Len(n) THEN n[i] ELSE 0

\* n * k, for 0 < k <= 2^16: limb by limb from the lowest, with a carry
BigTimes(n, k) ==
    LET RECURSIVE From(_, _)
        From(i, carry) ==
            IF i > Len(n)
            THEN Strip(<<carry % Base, carry \div Base>>)
            ELSE LET t == n[i] * k + carry
                 IN <<t % Base>> \o From(i + 1, t \div Base)
    IN From(1, 0)

\* a + b
BigPlus(a, b) ==
    LET RECURSIVE From(_, _)
        From(i, carry) ==
            IF i > Len(a) /\ i > Len(b)
            THEN (IF carry = 0 THEN <<>> ELSE <<carry>>)
            ELSE LET t == Limb(a, i) + Limb(b, i) + carry
                 IN <<t % Base>> \o From(i + 1, t \div Base)
    IN From(1, 0)

\* a - b, for a >= b
BigMinus(a, b) ==
    LET RECURSIVE From(_, _)
        From(i, borrow) ==
            IF i > Len(a) THEN <<>>
            ELSE LET t == a[i] - Limb(b, i) - borrow
                 IN <<t % Base>> \o From(i + 1, IF t < 0 THEN 1 ELSE 0)
    IN Strip(From(1, 0))

\* -1, 0, 1 as a < b, a = b, a > b: by the length, then from the highest limb
BigCompare(a, b) ==
    LET RECURSIVE From(_)
        From(i) ==
            IF i = 0 THEN 0
            ELSE IF a[i] # b[i] THEN (IF a[i] < b[i] THEN -1 ELSE 1)
            ELSE From(i - 1)
    IN IF Len(a) # Len(b) THEN (IF Len(a) < Len(b) THEN -1 ELSE 1)
       ELSE From(Len(a))

\* n div b and n mod b, for 0 < b <= 2^16: from the highest limb, with the
\* remainder carried down
BigDiv(n, b) ==
    LET RECURSIVE From(_, _)
        From(i, rem) ==
            IF i = 0 THEN [q |-> <<>>, r |-> rem]
            ELSE LET t == rem * Base + n[i]
                     rest == From(i - 1, t % b)
                 IN [q |-> Append(rest.q, t \div b), r |-> rest.r]
        d == From(Len(n), 0)
    IN [q |-> Strip(d.q), r |-> d.r]

\* n * 2^k
ShiftLeft(n, k) ==
    [i \in 1..(k \div LimbBits) |-> 0] \o BigTimes(n, 2^(k % LimbBits))

\* n div 2^k
ShiftRight(n, k) ==
    LET w == k \div LimbBits
        t == k % LimbBits
    IN Strip([i \in 1..(Len(n) - w) |->
                 (Limb(n, i + w) \div 2^t)
                 + (Limb(n, i + w + 1) % 2^t) * 2^(LimbBits - t)])

\* bit i of n, the lowest being bit 0
Bit(n, i) == (Limb(n, i \div LimbBits + 1) \div 2^(i % LimbBits)) % 2

\* n mod 2^k = 0
LowBitsZero(n, k) ==
    /\ \A i \in 1..(k \div LimbBits) : Limb(n, i) = 0
    /\ Limb(n, k \div LimbBits + 1) % 2^(k % LimbBits) = 0

Zero == [kind |-> "num", s |-> 0, m |-> <<>>, e |-> 0]
Infinity == [kind |-> "inf", s |-> 1, m |-> <<>>, e |-> 0]
NaN == [kind |-> "nan", s |-> 0, m |-> <<>>, e |-> 0]

\* the double nearest to s * n * 2^e, or to a little more than that when
\* sticky: 53 significant bits, the even one of two nearest
Round(s, n, e, sticky) ==
    LET excess == BigBits(n) - 53
    IN IF n = <<>> THEN Zero
       ELSE IF excess <= 0
       THEN [kind |-> "num", s |-> s, m |-> ShiftLeft(n, -excess), e |-> e + excess]
       ELSE LET q == ShiftRight(n, excess)
                up == /\ Bit(n, excess - 1) = 1
                      /\ sticky \/ ~LowBitsZero(n, excess - 1) \/ Bit(q, 0) = 1
                q1 == IF up THEN BigPlus(q, <<1>>) ELSE q
            IN IF BigBits(q1) > 53
               THEN [kind |-> "num", s |-> s, m |-> ShiftRight(q1, 1),
                     e |-> e + excess + 1]
               ELSE [kind |-> "num", s |-> s, m |-> q1, e |-> e + excess]

\* the double of a whole number k
FromInteger(k) == Round(Sign(k), FromInt(Abs(k)), 0, FALSE)

\* x / y on amounts x, y: the quotient of x * 2^75 by y has more than 53
\* bits, and a remainder makes it sticky
Div(x, y) ==
    IF ~IsNumber(x) \/ ~IsNumber(y) THEN NaN
    ELSE IF y = 0
    THEN (IF x > 0 THEN Infinity ELSE IF x < 0 THEN [Infinity EXCEPT !.kind = "-inf", !.s = -1] ELSE NaN)
    ELSE LET d == BigDiv(ShiftLeft(FromInt(Abs(x)), 5 * LimbBits), Abs(y))
         IN Round(Sign(x) * Sign(y), d.q, -5 * LimbBits, d.r # 0)

\* q * k, for a whole k > 0
Times(q, k) ==
    IF q.kind = "num" THEN Round(q.s, BigTimes(q.m, k), q.e, FALSE) ELSE q

\* q - k, for a whole k > 0: k is k * 2^-e units of the last bit of q
Minus(q, k) ==
    IF q.kind # "num" THEN q
    ELSE IF q.s = 0 THEN FromInteger(-k)
    ELSE LET units == ShiftLeft(FromInt(k), -q.e)
             c == BigCompare(q.m, units)
         IN IF q.s < 0 THEN Round(-1, BigPlus(q.m, units), q.e, FALSE)
            ELSE IF c = 0 THEN Zero
            ELSE IF c > 0 THEN Round(1, BigMinus(q.m, units), q.e, FALSE)
            ELSE Round(-1, BigMinus(units, q.m), q.e, FALSE)

\* the whole part of |q|, below 2^31
Whole(q) ==
    LET RECURSIVE ToInt(_)
        ToInt(n) == IF n = <<>> THEN 0 ELSE n[1] + Base * ToInt(Tail(n))
    IN ToInt(ShiftRight(q.m, -q.e))

\* -1, 0, 1 as q < k, q = k, q > k, for a double q and a whole k >= 0: by
\* the whole part of q, then by whether q has a part behind the point
Compare(q, k) ==
    IF q.s < 0 THEN -1
    ELSE IF q.s = 0 THEN -Sign(k)
    ELSE IF Whole(q) # k THEN (IF Whole(q) < k THEN -1 ELSE 1)
    ELSE IF ~LowBitsZero(q.m, -q.e) THEN 1 ELSE 0

\* q > k: false on NaN
Gt(q, k) ==
    CASE q.kind = "num" -> Compare(q, k) > 0
      [] q.kind = "inf" -> TRUE
      [] OTHER -> FALSE

\* Number.prototype.toFixed(0) of a q >= 0: "0" for 0, the nearest whole
\* number otherwise, the larger one of two; "Infinity" for Infinity
ToFixed0(q) ==
    IF q.kind # "num" THEN [kind |-> q.kind, v |-> 0]
    ELSE IF q.s = 0 THEN [kind |-> "num", v |-> 0]
    ELSE [kind |-> "num", v |-> q.s * (Whole(q) + Bit(q.m, -q.e - 1))]

---------------------------------------------------------------------------
(* Dates *)

DaysInMonth(y, m) ==
    LET isLeap == (y % 4 = 0 /\ y % 100 # 0) \/ y % 400 = 0
    IN IF m = 2 THEN (IF isLeap THEN 29 ELSE 28)
       ELSE IF m \in {4, 6, 9, 11} THEN 30 ELSE 31

\* new Date(date).getTime(), in days since 1970-01-01: the days of the years
\* before, of the months before, and of the month
GetTime(date) ==
    LET RECURSIVE DaysBeforeMonth(_)
        DaysBeforeMonth(m) ==
            IF m = 1 THEN 0 ELSE DaysBeforeMonth(m - 1) + DaysInMonth(date.y, m - 1)
        RECURSIVE DaysBeforeYear(_)
        DaysBeforeYear(y) ==
            IF y = 1970 THEN 0
            ELSE DaysBeforeYear(y - 1) + 337 + DaysInMonth(y - 1, 2)
    IN DaysBeforeYear(date.y) + DaysBeforeMonth(date.m) + date.d - 1

\* the time zones a server is run in: west of UTC, and UTC
ServerZones == {-5, 0}

\* the local date of new Date(date): the text is read as midnight UTC, which
\* is the evening of the day before in a zone z hours behind UTC and a time
\* of the same day in UTC and in a zone ahead of it
LocalDate(date, z) ==
    LET previousDay ==
            IF date.d > 1 THEN [y |-> date.y, m |-> date.m, d |-> date.d - 1]
            ELSE IF date.m > 1
            THEN [y |-> date.y, m |-> date.m - 1,
                  d |-> DaysInMonth(date.y, date.m - 1)]
            ELSE [y |-> date.y - 1, m |-> 12, d |-> 31]
    IN IF z < 0 THEN previousDay ELSE date

\* nextDate.setMonth(nextDate.getMonth() + 1), formatted by formatISO: the
\* same local day of the next month; a day the next month does not have runs
\* over into the month after it
SetNextMonth(date, z) ==
    LET local == LocalDate(date, z)
        y1 == IF local.m = 12 THEN local.y + 1 ELSE local.y
        m1 == IF local.m = 12 THEN 1 ELSE local.m + 1
        dim == DaysInMonth(y1, m1)
    IN IF local.d <= dim
       THEN [y |-> y1, m |-> m1, d |-> local.d]
       ELSE [y |-> y1, m |-> m1 + 1, d |-> local.d - dim]

\* new Date().getMonth() and getFullYear() of the request's time, midday UTC
\* of this day, which is this day in every zone
Today == [y |-> 2024, m |-> 2, d |-> 15]

\* new Date(t.date).getMonth() === currentMonth &&
\* new Date(t.date).getFullYear() === currentYear
InCurrentMonth(date, z) ==
    LocalDate(date, z).m = Today.m /\ LocalDate(date, z).y = Today.y

---------------------------------------------------------------------------
(* MemStorage *)

\* initDefaultCategories: the categories the constructor creates, ids 1..6
DefaultCategoryNames ==
    <<"Housing", "Groceries", "Transportation", "Entertainment", "Education", "Income">>

\* { ...object, ...updateData }: the fields the request gives replace the
\* object's; the entry stays under its Map key
Spread(entry, updateData) ==
    [f \in DOMAIN entry |->
        IF f # "key" /\ f \in DOMAIN updateData THEN updateData[f] ELSE entry[f]]

\* getBudgetsByUser without its filter: the budgets of every user
GetBudgetsOfAllUsers(bs, userId) == bs

\* getTransactionsByUser without its filter: the transactions of every user
GetTransactionsOfAllUsers(txs, userId) == txs

\* getTransactionsByUser, getBudgetsByUser: the values of the Map, filtered
GetTransactionsByUser(txs, userId) == SelectSeq(txs, LAMBDA t : t.userId = userId)
GetBudgetsByUser(bs, userId) == SelectSeq(bs, LAMBDA b : b.userId = userId)

\* getCategoryById(id).name, or "" for undefined
CategoryNameById(cats, id) == IF MapHas(cats, id) THEN MapGet(cats, id).name ELSE ""

\* createTransaction: the object stored under the next id
CreateTransaction(id, insertTransaction) ==
    [key |-> id, id |-> id,
     userId |-> insertTransaction.userId,
     amount |-> insertTransaction.amount,
     date |-> insertTransaction.date,
     categoryId |-> insertTransaction.categoryId,
     isIncome |-> insertTransaction.isIncome]

\* updateTransaction, for an id the Map has
UpdateTransaction(txs, id, updateData) == MapSet(txs, Spread(MapGet(txs, id), updateData))

\* createBudget
CreateBudget(id, insertBudget) ==
    [key |-> id, id |-> id,
     userId |-> insertBudget.userId,
     categoryId |-> insertBudget.categoryId,
     amount |-> insertBudget.amount]

\* updateBudget, for an id the Map has
UpdateBudget(bs, id, updateData) == MapSet(bs, Spread(MapGet(bs, id), updateData))

\* a createdAt that came out of JSON.parse: the ISO string of a Date
IsoStringAt(time) == [isDate |-> FALSE, time |-> time]

\* a createAlert that keeps one alert, under the key 1
CreateAlertOverwriting(id, insertAlert, now) ==
    [key |-> 1, id |-> 1,
     userId |-> insertAlert.userId,
     title |-> insertAlert.title,
     message |-> insertAlert.message,
     type |-> insertAlert.type,
     read |-> FALSE,
     createdAt |-> [isDate |-> TRUE, time |-> now]]

\* createAlert at the time now
CreateAlert(id, insertAlert, now) ==
    [key |-> id, id |-> id,
     userId |-> insertAlert.userId,
     title |-> insertAlert.title,
     message |-> insertAlert.message,
     type |-> insertAlert.type,
     read |-> FALSE,
     createdAt |-> [isDate |-> TRUE, time |-> now]]

RECURSIVE SortAlertsNewestFirst(_)
\* list.sort((a, b) => b.createdAt.getTime() - a.createdAt.getTime()): a
\* stable sort, in which the last alert goes behind every alert that is not
\* older than it
SortAlertsNewestFirst(list) ==
    IF list = <<>> THEN <<>>
    ELSE LET sorted == SortAlertsNewestFirst(SubSeq(list, 1, Len(list) - 1))
             a == list[Len(list)]
             n == Cardinality({i \in 1..Len(sorted) :
                                  sorted[i].createdAt.time >= a.createdAt.time})
         IN SubSeq(sorted, 1, n) \o <<a>> \o SubSeq(sorted, n + 1, Len(sorted))

\* the comparator of getAlertsByUser throws a TypeError: it is called, on
\* every element of a list of two or more, and a createdAt that is no Date
\* has no getTime
AlertsSortThrows(list) ==
    /\ Len(list) >= 2
    /\ \E i \in 1..Len(list) : ~list[i].createdAt.isDate

\* getAlertsByUser, when the sort does not throw
GetAlertsByUser(as, userId) ==
    SortAlertsNewestFirst(SelectSeq(as, LAMBDA a : a.userId = userId))

\* a markAlertAsRead that marks every alert
MarkAllAlertsAsRead(as, id) == [i \in 1..Len(as) |-> [as[i] EXCEPT !.read = TRUE]]

\* a markAlertAsRead that drops the alert it has read
MarkAlertAsReadRemoving(as, id) == MapDelete(as, id)

\* markAlertAsRead, for an id the Map has
MarkAlertAsRead(as, id) == MapSet(as, [MapGet(as, id) EXCEPT !.read = TRUE])

\* Math.max(...Array.from(map.keys()), 0) + 1
NextIdAfter(s) ==
    LET candidates == Keys(s) \cup {0}
    IN (CHOOSE k \in candidates : \A j \in candidates : j <= k) + 1

RECURSIVE SetAll(_, _)
\* list.forEach(x => map.set(x.id, x)) on a cleared or partly filled map
SetAll(s, list) ==
    IF list = <<>> THEN s
    ELSE SetAll(MapSet(s, [Head(list) EXCEPT !.key = Head(list).id]), Tail(list))

---------------------------------------------------------------------------
(* The aggregations of routes.ts *)

RECURSIVE SumAmount(_)
\* list.reduce((sum, t) => sum + Number(t.amount), 0)
SumAmount(list) ==
    IF list = <<>> THEN 0 ELSE Plus(Head(list).amount, SumAmount(Tail(list)))

\* the filter of checkBudgetAlerts and of GET /api/budgets: the category's
\* expenses of the current month and year
CategoryTransactions(list, categoryId, z) ==
    SelectSeq(list, LAMBDA t : /\ t.categoryId = categoryId
                               /\ ~t.isIncome
                               /\ InCurrentMonth(t.date, z))

\* a label that is empty when the category is missing
CategoryLabelOrEmpty(cats, categoryId) ==
    IF MapHas(cats, categoryId) THEN MapGet(cats, categoryId).name ELSE ""

\* category ? category.name : 'this category'
CategoryLabel(cats, categoryId) ==
    IF MapHas(cats, categoryId) THEN MapGet(cats, categoryId).name ELSE "this category"

\* totalSpent of checkBudgetAlerts
TotalSpent(list, categoryId, transactionAmount, z) ==
    Plus(SumAmount(CategoryTransactions(list, categoryId, z)), transactionAmount)

\* thresholds that warn from 90 on rather than above 90
AlertTypeFromNinety(percentage) ==
    IF Gt(percentage, 100) THEN "error"
    ELSE IF Gt(percentage, 89) THEN "warning"
    ELSE "none"

\* the branch checkBudgetAlerts takes on a percentage
AlertType(percentage) ==
    IF Gt(percentage, 100) THEN "error"
    ELSE IF /\ Gt(percentage, 90)
            /\ percentage.kind = "num" /\ Compare(percentage, 100) <= 0
    THEN "warning"
    ELSE "none"

\* checkBudgetAlerts(userId, categoryId, transactionAmount) on the stores bs,
\* txs, cats of a server in zone z: what it computes, and the alerts it asks
\* createAlert for (none or one)
CheckBudgetAlerts(bs, txs, cats, userId, categoryId, transactionAmount, z) ==
    LET userBudgets == GetBudgetsByUser(bs, userId)
        found == SelectSeq(userBudgets, LAMBDA b : b.categoryId = categoryId)
    IN IF found = <<>>
       THEN [hasBudget |-> FALSE, budget |-> 0, limit |-> 0, totalSpent |-> 0,
             percentage |-> NaN, inserts |-> <<>>]
       ELSE
       LET budget == Head(found)
           totalSpent == TotalSpent(GetTransactionsByUser(txs, userId),
                                    categoryId, transactionAmount, z)
           percentage == Times(Div(totalSpent, budget.amount), 100)
           categoryName == CategoryLabel(cats, categoryId)
           type == AlertType(percentage)
           insert ==
               IF type = "error"
               THEN [userId |-> userId,
                     title |-> [text |-> "Budget Alert", name |-> categoryName],
                     message |-> [text |-> "exceeded", name |-> categoryName,
                                  amount |-> Sub(totalSpent, budget.amount),
                                  pct |-> ToFixed0(Minus(percentage, 100))],
                     type |-> "error"]
               ELSE [userId |-> userId,
                     title |-> [text |-> "Budget Warning", name |-> categoryName],
                     message |-> [text |-> "reached", name |-> categoryName,
                                  amount |-> 0,
                                  pct |-> ToFixed0(percentage)],
                     type |-> "warning"]
       IN [hasBudget |-> TRUE, budget |-> budget.key, limit |-> budget.amount,
           totalSpent |-> totalSpent, percentage |-> percentage,
           inserts |-> IF type = "none" THEN <<>> ELSE <<insert>>]

RECURSIVE SortNewestFirst(_)
\* list.sort((a, b) => new Date(b.date).getTime() - new Date(a.date).getTime()):
\* a stable sort, in which the last element goes behind every element that
\* is not older than it
SortNewestFirst(list) ==
    IF list = <<>> THEN <<>>
    ELSE LET sorted == SortNewestFirst(SubSeq(list, 1, Len(list) - 1))
             t == list[Len(list)]
             n == Cardinality({i \in 1..Len(sorted) :
                                  GetTime(sorted[i].date) >= GetTime(t.date)})
         IN SubSeq(sorted, 1, n) \o <<t>> \o SubSeq(sorted, n + 1, Len(sorted))

\* the nextIncomeDate "" of a user without income
NoDate == [y |-> 0, m |-> 0, d |-> 0]

\* currentMonthTransactions.filter(t => t.isIncome) summed
MonthlyIncome(list, z) ==
    SumAmount(SelectSeq(list, LAMBDA t : InCurrentMonth(t.date, z) /\ t.isIncome))

\* currentMonthTransactions.filter(t => !t.isIncome) summed
MonthlyExpenses(list, z) ==
    SumAmount(SelectSeq(list, LAMBDA t : InCurrentMonth(t.date, z) /\ ~t.isIncome))

\* a balance of the current month only
BalanceOfMonth(list) == Sub(MonthlyIncome(list, zone), MonthlyExpenses(list, zone))

RECURSIVE Balance(_)
\* transactions.reduce((sum, t) => t.isIncome ? sum + amount : sum - amount, 0)
Balance(list) ==
    IF list = <<>> THEN 0
    ELSE LET t == list[Len(list)]
             sum == Balance(SubSeq(list, 1, Len(list) - 1))
         IN IF t.isIncome THEN Plus(sum, t.amount) ELSE Sub(sum, t.amount)

\* incomeTransactions: the incomes, newest first
IncomeTransactions(list) == SortNewestFirst(SelectSeq(list, LAMBDA t : t.isIncome))

\* budgets.reduce((sum, b) => sum + Number(b.amount), 0)
TotalBudgeted(userBudgets) == SumAmount(userBudgets)

\* the variance without the test on totalBudgeted
BudgetDifferenceUnguarded(monthlyExpenses, totalBudgeted) ==
    Times(Minus(Div(monthlyExpenses, totalBudgeted), 1), 100)

\* totalBudgeted > 0 ? ((monthlyExpenses / totalBudgeted) - 1) * 100 : 0
BudgetDifference(monthlyExpenses, totalBudgeted) ==
    IF IsPositive(totalBudgeted)
    THEN Times(Minus(Div(monthlyExpenses, totalBudgeted), 1), 100)
    ELSE Zero

\* the summary object of GET /api/summary, of a server in zone z
Summary(txs, bs, userId, z) ==
    LET list == GetTransactionsByUser(txs, userId)
        incomeTransactions == IncomeTransactions(list)
    IN [balance |-> Balance(list),
        monthlyIncome |-> MonthlyIncome(list, z),
        monthlyExpenses |-> MonthlyExpenses(list, z),
        nextIncomeDate |-> IF incomeTransactions = <<>> THEN NoDate
                           ELSE SetNextMonth(incomeTransactions[1].date, z),
        nextIncomeAmount |-> IF incomeTransactions = <<>> THEN 0
                             ELSE incomeTransactions[1].amount,
        budgetDifference |-> BudgetDifference(MonthlyExpenses(list, z),
                                              TotalBudgeted(GetBudgetsByUser(bs, userId)))]

\* budget.amount > 0 ? (spent / Number(budget.amount)) * 100 : 0
BudgetPercentage(spent, amount) ==
    IF IsPositive(amount) THEN Times(Div(spent, amount), 100) ELSE Zero

\* one element of budgetsWithDetails of GET /api/budgets
BudgetWithDetails(budget, list, cats, z) ==
    LET spent == SumAmount(CategoryTransactions(list, budget.categoryId, z))
    IN [id |-> budget.id, userId |-> budget.userId, categoryId |-> budget.categoryId,
        amount |-> budget.amount,
        category |-> CategoryNameById(cats, budget.categoryId),
        spent |-> spent,
        percentage |-> BudgetPercentage(spent, budget.amount)]

\* budgetsWithDetails of GET /api/budgets
BudgetsWithDetails(txs, bs, cats, userId, z) ==
    LET userBudgets == GetBudgetsByUser(bs, userId)
        list == GetTransactionsByUser(txs, userId)
    IN [i \in 1..Len(userBudgets) |-> BudgetWithDetails(userBudgets[i], list, cats, z)]

---------------------------------------------------------------------------
(* The requests the model takes *)

\* the authenticated users (req.user.id)
Users == {1, 2}

DateFeb1 == [y |-> 2024, m |-> 2, d |-> 1]        \* in the current month
DateJan31 == [y |-> 2024, m |-> 1, d |-> 31]      \* another month of the year
DateDec1 == [y |-> 2023, m |-> 12, d |-> 1]       \* a December
DateFeb2023 == [y |-> 2023, m |-> 2, d |-> 1]     \* the same month of another year

TxBody(amount, date, categoryId, isIncome) ==
    [amount |-> amount, date |-> date, categoryId |-> categoryId, isIncome |-> isIncome]

\* request bodies of POST /api/transactions and rows of an uploaded CSV, of
\* user 1: expenses in category 1 and incomes in category 2
AlertTxBodies ==
    { TxBody(45, DateFeb1, 1, FALSE),
      TxBody(95, DateFeb1, 1, FALSE),
      TxBody(95, DateJan31, 1, FALSE),
      TxBody(50, DateFeb1, 2, TRUE),
      TxBody(45, DateJan31, 2, TRUE) }

\* request bodies of POST /api/transactions and rows of an uploaded CSV, of
\* user 1: incomes and expenses of several months and years
SummaryTxBodies ==
    { TxBody(50, DateFeb1, 2, TRUE),
      TxBody(45, DateJan31, 2, TRUE),
      TxBody(150, DateDec1, 2, TRUE),
      TxBody(95, DateFeb1, 1, FALSE),
      TxBody(45, DateFeb2023, 1, FALSE) }

\* the bodies a user sends: user 2 sends one expense, in category 1
TxBodiesOf(u, txBodies) == IF u = 1 THEN txBodies ELSE {TxBody(95, DateFeb1, 1, FALSE)}

\* the files a user uploads, each with its records and whether its header has
\* the five columns: files of one record and of two, one without records and
\* one without the column description
CsvFilesOf(u) ==
    IF u = 1
    THEN { [columns |-> TRUE, records |-> <<TxBody(95, DateFeb1, 1, FALSE)>>],
           [columns |-> TRUE, records |-> <<TxBody(95, DateFeb1, 1, FALSE),
                                            TxBody(50, DateFeb1, 2, TRUE)>>],
           [columns |-> TRUE, records |-> <<>>],
           [columns |-> FALSE, records |-> <<TxBody(95, DateFeb1, 1, FALSE)>>] }
    ELSE { [columns |-> TRUE, records |-> <<TxBody(95, DateFeb1, 1, FALSE)>>] }

\* a body insertTransactionSchema rejects: it has no date (NoDate)
TxBodyNoDate == TxBody(45, NoDate, 1, FALSE)

\* request bodies of PUT /api/transactions/:id
TxUpdates == { [amount |-> 150] }

BudgetBody(categoryId, amount) == [categoryId |-> categoryId, amount |-> amount]

\* request bodies of POST /api/budgets, of user 1
BudgetBodies == { BudgetBody(1, 100), BudgetBody(1, 0), BudgetBody(2, 50) }

\* the bodies a user sends: user 2 sends one budget, for category 1
BudgetBodiesOf(u) == IF u = 1 THEN BudgetBodies ELSE {BudgetBody(1, 100)}

\* request bodies of PUT /api/budgets/:id
BudgetUpdates == { [amount |-> -100] }

\* the ids a request names in its path: the ids in use and one never used
PathIds(s, counter) == Keys(s) \cup {counter}

\* the defaultCategories GET /api/categories creates in an empty store
SeedCategoryNames ==
    <<"Housing", "Food", "Transportation", "Entertainment", "Education",
      "Healthcare", "Shopping", "Income">>

\* names.forEach(createCategory) from the id counter `first` on
CategoriesFrom(first, names) ==
    [i \in 1..Len(names) |->
        [key |-> first + i - 1, id |-> first + i - 1, name |-> names[i]]]

\* a backup's list that is no array (the field is missing)
NoList == [isArray |-> FALSE, list |-> <<>>]
List(l) == [isArray |-> TRUE, list |-> l]

\* request bodies of POST /api/admin/database/restore
BackupNoTimestamp ==
    [timestamp |-> FALSE, transactions |-> List(<<>>), budgets |-> List(<<>>),
     categories |-> List(<<>>), alerts |-> List(<<>>)]
BackupFresh ==
    [timestamp |-> TRUE, transactions |-> List(<<>>), budgets |-> List(<<>>),
     categories |-> List(CategoriesFrom(1, DefaultCategoryNames)),
     alerts |-> List(<<>>)]
BackupAlertsOnly ==
    [timestamp |-> TRUE, transactions |-> NoList, budgets |-> NoList,
     categories |-> List(<<>>),
     alerts |-> List(<<[key |-> 1, id |-> 1, userId |-> 2,
                        title |-> [text |-> "Welcome", name |-> ""],
                        message |-> [text |-> "welcome", name |-> "", amount |-> 0,
                                     pct |-> [kind |-> "num", v |-> 0]],
                        type |-> "success", read |-> TRUE,
                        createdAt |-> IsoStringAt(0)]>>)]
Backups == {BackupNoTimestamp, BackupFresh, BackupAlertsOnly}

---------------------------------------------------------------------------
(* The state after construction *)

NoRequest == [op |-> "none", userId |-> 0, status |-> 0]

\* the answer of a request that is refused: the status, and no store changes
Rejected(status) == [op |-> "rejected", userId |-> 0, status |-> status]

\* the ids handed out by createTransaction and createBudget
Created == (currentTransactionId - 1) + (currentBudgetId - 1)

Init ==
    /\ transactions = <<>>
    /\ budgets = <<>>
    /\ categories = CategoriesFrom(1, DefaultCategoryNames)
    /\ alerts = <<>>
    /\ currentTransactionId = 1
    /\ currentBudgetId = 1
    /\ currentCategoryId = Len(DefaultCategoryNames) + 1
    /\ currentAlertId = 1
    /\ last = NoRequest
    /\ pending = <<>>
    /\ clock = 0
    /\ zone \in ServerZones

---------------------------------------------------------------------------
(* The handlers of routes.ts *)

\* insertTransactionSchema.parse: the date is required, and the amount is a
\* text of digits with an optional sign and point
InsertTransactionOk(body) == body.date # NoDate /\ IsNumber(body.amount)

\* insertBudgetSchema.parse: the amount is a text of digits with an optional
\* sign and point
InsertBudgetOk(body) == IsNumber(body.amount)

\* GET /api/categories
GetCategories(userId) ==
    /\ IF categories = <<>>
       THEN /\ categories' = CategoriesFrom(currentCategoryId, SeedCategoryNames)
            /\ currentCategoryId' = currentCategoryId + Len(SeedCategoryNames)
       ELSE UNCHANGED <<categories, currentCategoryId>>
    /\ last' = [op |-> "getCategories", userId |-> 0, status |-> 200]
    /\ UNCHANGED <<transactions, budgets, alerts, currentTransactionId,
                   currentBudgetId, currentAlertId>>

\* POST /api/transactions
PostTransaction(userId, body) ==
    IF ~InsertTransactionOk(body)
    THEN /\ last' = Rejected(400)
         /\ UNCHANGED stores
    ELSE LET transaction ==
                    CreateTransaction(currentTransactionId,
                                      [userId |-> userId, amount |-> body.amount,
                                       date |-> body.date,
                                       categoryId |-> body.categoryId,
                                       isIncome |-> body.isIncome])
                txs == MapSet(transactions, transaction)
                check == CheckBudgetAlerts(budgets, txs, categories, userId,
                                           transaction.categoryId, transaction.amount,
                                           zone)
            IN /\ transactions' = txs
               /\ currentTransactionId' = currentTransactionId + 1
               /\ IF check.inserts = <<>>
                  THEN UNCHANGED <<alerts, currentAlertId>>
                  ELSE /\ alerts' = MapSet(alerts, CreateAlert(currentAlertId,
                                                               check.inserts[1], clock))
                       /\ currentAlertId' = currentAlertId + 1
               /\ last' = [op |-> "postTransaction", userId |-> userId, status |-> 201,
                           transaction |-> transaction, check |-> check,
                           alert |-> IF check.inserts = <<>> THEN 0 ELSE currentAlertId]
               /\ UNCHANGED <<budgets, categories, currentBudgetId, currentCategoryId>>

\* PUT /api/transactions/:id
PutTransaction(userId, id, body) ==
    LET owned == SelectSeq(GetTransactionsByUser(transactions, userId), LAMBDA t : t.id = id)
    IN IF owned = <<>>
       THEN /\ last' = Rejected(404)
            /\ UNCHANGED stores
       ELSE IF ~MapHas(transactions, id)
       THEN /\ last' = Rejected(400)
            /\ UNCHANGED stores
       ELSE /\ transactions' = UpdateTransaction(transactions, id, body)
            /\ last' = [op |-> "putTransaction", userId |-> 0, status |-> 200]
            /\ UNCHANGED <<budgets, categories, alerts, currentTransactionId,
                           currentBudgetId, currentCategoryId, currentAlertId>>

\* DELETE /api/transactions/:id
DeleteTransaction(userId, id) ==
    LET owned == SelectSeq(GetTransactionsByUser(transactions, userId), LAMBDA t : t.id = id)
    IN IF owned = <<>>
       THEN /\ last' = Rejected(404)
            /\ UNCHANGED stores
       ELSE /\ transactions' = MapDelete(transactions, id)
            /\ last' = [op |-> "deleteTransaction", userId |-> 0,
                        status |-> IF MapHas(transactions, id) THEN 204 ELSE 500]
            /\ UNCHANGED <<budgets, categories, alerts, currentTransactionId,
                           currentBudgetId, currentCategoryId, currentAlertId>>

\* the records of the uploads that are between their awaits: the ids they
\* are going to take
RECURSIVE Uploading(_)
Uploading(requests) ==
    IF requests = <<>> THEN 0
    ELSE Len(Head(requests).records) + Uploading(Tail(requests))

\* POST /api/transactions/upload-csv, up to its first await: a file without
\* records or without one of the five columns is answered 400, and for any
\* other the handler calls mkdir and waits for it
UploadCsv(userId, file) ==
    IF file.records = <<>> \/ ~file.columns
    THEN /\ last' = Rejected(400)
         /\ UNCHANGED <<stores, pending>>
    ELSE /\ pending' = Append(pending, [userId |-> userId, records |-> file.records,
                                        pc |-> "mkdir"])
         /\ UNCHANGED <<stores, last>>

\* mkdir is over: when it has failed the handler answers 400, otherwise it
\* calls writeFile and waits for it
WriteCsvFile(i, made) ==
    /\ pending[i].pc = "mkdir"
    /\ IF made
       THEN /\ pending' = [pending EXCEPT ![i].pc = "writeFile"]
            /\ UNCHANGED <<stores, last>>
       ELSE /\ pending' = SubSeq(pending, 1, i - 1) \o SubSeq(pending, i + 1, Len(pending))
            /\ last' = Rejected(400)
            /\ UNCHANGED stores

\* writeFile is over: when it has failed the handler answers 400, otherwise
\* it creates a transaction of every record, without validation and without
\* checkBudgetAlerts, and answers 201
CreateRecords(i, written) ==
    /\ pending[i].pc = "writeFile"
    /\ pending' = SubSeq(pending, 1, i - 1) \o SubSeq(pending, i + 1, Len(pending))
    /\ IF written
       THEN LET records == pending[i].records
                RECURSIVE From(_, _)
                From(s, n) ==
                    IF n > Len(records) THEN s
                    ELSE From(MapSet(s, CreateTransaction(
                                            currentTransactionId + n - 1,
                                            [userId |-> pending[i].userId,
                                             amount |-> records[n].amount,
                                             date |-> records[n].date,
                                             categoryId |-> records[n].categoryId,
                                             isIncome |-> records[n].isIncome])),
                              n + 1)
            IN /\ transactions' = From(transactions, 1)
               /\ currentTransactionId' = currentTransactionId + Len(records)
               /\ last' = [op |-> "uploadCsv", userId |-> 0, status |-> 201]
               /\ UNCHANGED <<budgets, categories, alerts, currentBudgetId,
                              currentCategoryId, currentAlertId>>
       ELSE /\ last' = Rejected(400)
            /\ UNCHANGED stores

\* a GET /api/budgets that creates the default categories in an empty
\* category store, as GET /api/categories does
GetBudgetsSeeding(userId) ==
    /\ last' = [op |-> "getBudgets", userId |-> userId, status |-> 200,
                body |-> BudgetsWithDetails(transactions, budgets, categories, userId,
                                            zone)]
    /\ IF categories = <<>>
       THEN /\ categories' = CategoriesFrom(currentCategoryId, SeedCategoryNames)
            /\ currentCategoryId' = currentCategoryId + Len(SeedCategoryNames)
       ELSE UNCHANGED <<categories, currentCategoryId>>
    /\ UNCHANGED <<transactions, budgets, alerts, currentTransactionId,
                   currentBudgetId, currentAlertId>>

\* GET /api/budgets
GetBudgets(userId) ==
    /\ last' = [op |-> "getBudgets", userId |-> userId, status |-> 200,
                body |-> BudgetsWithDetails(transactions, budgets, categories, userId,
                                            zone)]
    /\ UNCHANGED stores

\* POST /api/budgets
PostBudget(userId, body) ==
    IF ~InsertBudgetOk(body)
    THEN /\ last' = Rejected(400)
         /\ UNCHANGED stores
    ELSE /\ budgets' = MapSet(budgets,
                              CreateBudget(currentBudgetId,
                                           [userId |-> userId,
                                            categoryId |-> body.categoryId,
                                            amount |-> body.amount]))
         /\ currentBudgetId' = currentBudgetId + 1
         /\ last' = [op |-> "postBudget", userId |-> 0, status |-> 201]
         /\ UNCHANGED <<transactions, categories, alerts, currentTransactionId,
                        currentCategoryId, currentAlertId>>

\* PUT /api/budgets/:id
PutBudget(userId, id, body) ==
    LET owned == SelectSeq(GetBudgetsByUser(budgets, userId), LAMBDA b : b.id = id)
    IN IF owned = <<>>
       THEN /\ last' = Rejected(404)
            /\ UNCHANGED stores
       ELSE IF ~MapHas(budgets, id)
       THEN /\ last' = Rejected(400)
            /\ UNCHANGED stores
       ELSE /\ budgets' = UpdateBudget(budgets, id, body)
            /\ last' = [op |-> "putBudget", userId |-> 0, status |-> 200]
            /\ UNCHANGED <<transactions, categories, alerts, currentTransactionId,
                           currentBudgetId, currentCategoryId, currentAlertId>>

\* DELETE /api/budgets/:id
DeleteBudget(userId, id) ==
    LET owned == SelectSeq(GetBudgetsByUser(budgets, userId), LAMBDA b : b.id = id)
    IN IF owned = <<>>
       THEN /\ last' = Rejected(404)
            /\ UNCHANGED stores
       ELSE /\ budgets' = MapDelete(budgets, id)
            /\ last' = [op |-> "deleteBudget", userId |-> 0,
                        status |-> IF MapHas(budgets, id) THEN 204 ELSE 500]
            /\ UNCHANGED <<transactions, categories, alerts, currentTransactionId,
                           currentBudgetId, currentCategoryId, currentAlertId>>

\* POST /api/alerts/:id/read
PostAlertRead(userId, id) ==
    IF MapHas(alerts, id)
    THEN /\ alerts' = MarkAlertAsRead(alerts, id)
         /\ last' = [op |-> "postAlertRead", userId |-> 0, status |-> 200]
         /\ UNCHANGED <<transactions, budgets, categories, currentTransactionId,
                        currentBudgetId, currentCategoryId, currentAlertId>>
    ELSE /\ last' = Rejected(404)
         /\ UNCHANGED stores

\* GET /api/summary
GetSummary(userId) ==
    /\ last' = [op |-> "getSummary", userId |-> userId, status |-> 200,
                body |-> Summary(transactions, budgets, userId, zone)]
    /\ UNCHANGED stores

\* the id counter after one list of restoreFromBackup
RestoredCounter(field, counter) ==
    IF field.isArray THEN NextIdAfter(SetAll(<<>>, field.list)) ELSE counter

\* an entry of a backup's list that is null: reading its id throws
NullEntry == [null |-> TRUE]

\* the forEach over this list of the backup throws: the backup has the
\* list, it is an array and one of its entries is null
Throws(backup, name) ==
    /\ name \in DOMAIN backup
    /\ backup[name].isArray
    /\ \E i \in 1..Len(backup[name].list) : backup[name].list[i] = NullEntry

\* restoreFromBackup loads users, categories, transactions, budgets, alerts,
\* forumTopics, forumReplies and deals in this order: the number of the
\* first list that throws, counted from 0, and 8 when none does
FirstThrowing(backup) ==
    IF Throws(backup, "users") THEN 0
    ELSE IF Throws(backup, "categories") THEN 1
    ELSE IF Throws(backup, "transactions") THEN 2
    ELSE IF Throws(backup, "budgets") THEN 3
    ELSE IF Throws(backup, "alerts") THEN 4
    ELSE IF Throws(backup, "forumTopics") THEN 5
    ELSE IF Throws(backup, "forumReplies") THEN 6
    ELSE IF Throws(backup, "deals") THEN 7
    ELSE 8

\* the map of the n-th list after restoreFromBackup: restored when the list
\* comes before the one that throws, filled up to the null entry when it is
\* the one, cleared and not reached when it comes after
RestoredMap(field, n, stage) ==
    IF n < stage THEN (IF field.isArray THEN SetAll(<<>>, field.list) ELSE <<>>)
    ELSE IF n = stage
    THEN LET list == field.list
             first == CHOOSE i \in 1..Len(list) :
                          list[i] = NullEntry /\ \A j \in 1..(i - 1) : list[j] # NullEntry
         IN SetAll(<<>>, SubSeq(list, 1, first - 1))
    ELSE <<>>

\* the id counter of the n-th list after restoreFromBackup: it is set after
\* the forEach of a list that does not throw
RestoredId(field, counter, n, stage) ==
    IF n < stage THEN RestoredCounter(field, counter) ELSE counter

\* POST /api/admin/database/restore, by an administrator
PostRestore(backup) ==
    IF ~backup.timestamp
    THEN /\ last' = Rejected(400)
         /\ UNCHANGED stores
    ELSE LET stage == FirstThrowing(backup)
         IN /\ categories' = RestoredMap(backup.categories, 1, stage)
            /\ currentCategoryId' = RestoredId(backup.categories, currentCategoryId, 1, stage)
            /\ transactions' = RestoredMap(backup.transactions, 2, stage)
            /\ currentTransactionId' =
                   RestoredId(backup.transactions, currentTransactionId, 2, stage)
            /\ budgets' = RestoredMap(backup.budgets, 3, stage)
            /\ currentBudgetId' = RestoredId(backup.budgets, currentBudgetId, 3, stage)
            /\ alerts' = RestoredMap(backup.alerts, 4, stage)
            /\ currentAlertId' = RestoredId(backup.alerts, currentAlertId, 4, stage)
            /\ last' = [op |-> "postRestore", userId |-> 0,
                        status |-> IF stage = 8 THEN 200 ELSE 500]

\* the requests that write, with the transaction bodies a specification
\* draws from; each is handled in one step, at one time of the clock, but
\* the upload of a file, which waits for the file system twice
Requests(txBodies) ==
    /\ UNCHANGED <<pending, clock, zone>>
    /\ \/ \E u \in Users : GetCategories(u)
       \/ /\ Created + Uploading(pending) < MaxCreated
          /\ \E u \in Users : \E body \in TxBodiesOf(u, txBodies) \cup {TxBodyNoDate} :
                PostTransaction(u, body)
       \/ \E u \in Users, id \in PathIds(transactions, currentTransactionId),
             body \in TxUpdates : PutTransaction(u, id, body)
       \/ \E u \in Users, id \in PathIds(transactions, currentTransactionId) :
             DeleteTransaction(u, id)
       \/ /\ Created + Uploading(pending) < MaxCreated
          /\ \E u \in Users : \E body \in BudgetBodiesOf(u) : PostBudget(u, body)
       \/ \E u \in Users, id \in PathIds(budgets, currentBudgetId),
             body \in BudgetUpdates : PutBudget(u, id, body)
       \/ \E u \in Users, id \in PathIds(budgets, currentBudgetId) : DeleteBudget(u, id)
       \/ \E u \in Users, id \in PathIds(alerts, currentAlertId) : PostAlertRead(u, id)
       \/ \E backup \in Backups : PostRestore(backup)

\* the uploads of files, from await to await
Uploads(limit) ==
    /\ UNCHANGED <<clock, zone>>
    /\ \/ \E u \in Users : \E file \in CsvFilesOf(u) :
             /\ Created + Uploading(pending) + Len(file.records) <= limit
             /\ UploadCsv(u, file)
       \/ \E i \in 1..Len(pending), made \in BOOLEAN : WriteCsvFile(i, made)
       \/ \E i \in 1..Len(pending), written \in BOOLEAN : CreateRecords(i, written)

Next == Requests(AlertTxBodies) \/ Uploads(MaxCreated)

Spec == Init /\ [][Next]_vars

\* the requests that read aggregates
Reads ==
    /\ UNCHANGED <<pending, clock, zone>>
    /\ \/ \E u \in Users : GetBudgets(u)
       \/ \E u \in Users : GetSummary(u)

NextSummary == Requests(SummaryTxBodies) \/ Uploads(MaxCreated) \/ Reads

SpecSummary == Init /\ [][NextSummary]_vars

---------------------------------------------------------------------------
(* The alert store over time: budgets of one category, expenses that raise *)
(* alerts, alerts read and listed, a restore of a backup with alerts, at   *)
(* different times of the clock                                            *)

\* no transaction or budget is created in this specification once the two id
\* counters have handed out this many ids
MaxPosted == 4

\* the clock stops here
MaxClock == 1

\* request bodies of POST /api/budgets: sent twice, the user has two budgets
\* for category 1
SameCategoryBudgetBodies == { BudgetBody(1, 100) }

\* request bodies of POST /api/transactions: expenses of the current month
\* in category 1
ExpenseBodies == { TxBody(95, DateFeb1, 1, FALSE), TxBody(45, DateFeb1, 1, FALSE) }

\* a backup taken when user 1 had an unread alert and user 2 a read one, as
\* JSON.parse gives it: the createdAt of its alerts are strings
BackupWithAlerts ==
    [timestamp |-> TRUE, transactions |-> NoList, budgets |-> NoList,
     categories |-> List(CategoriesFrom(1, DefaultCategoryNames)),
     alerts |-> List(<<[key |-> 1, id |-> 1, userId |-> 1,
                        title |-> [text |-> "Budget Alert", name |-> "Housing"],
                        message |-> [text |-> "exceeded", name |-> "Housing",
                                     amount |-> 90,
                                     pct |-> [kind |-> "num", v |-> 90]],
                        type |-> "error", read |-> FALSE,
                        createdAt |-> IsoStringAt(0)],
                       [key |-> 2, id |-> 2, userId |-> 2,
                        title |-> [text |-> "Budget Alert", name |-> "Housing"],
                        message |-> [text |-> "exceeded", name |-> "Housing",
                                     amount |-> 90,
                                     pct |-> [kind |-> "num", v |-> 90]],
                        type |-> "error", read |-> TRUE,
                        createdAt |-> IsoStringAt(0)]>>)]

\* the process ends on an unhandled rejection: the stores are those of a
\* process started anew
ProcessExit ==
    /\ transactions' = <<>>
    /\ budgets' = <<>>
    /\ categories' = CategoriesFrom(1, DefaultCategoryNames)
    /\ alerts' = <<>>
    /\ currentTransactionId' = 1
    /\ currentBudgetId' = 1
    /\ currentCategoryId' = Len(DefaultCategoryNames) + 1
    /\ currentAlertId' = 1
    /\ last' = [op |-> "exit", userId |-> 0, status |-> 1]

\* GET /api/alerts: the list of getAlertsByUser.  When the sort throws, the
\* promise of the handler is rejected and nothing handles the rejection:
\* there is no answer, and the runtime warns and goes on or ends the
\* process, by its version and flags
GetAlerts(userId) ==
    LET list == SelectSeq(alerts, LAMBDA a : a.userId = userId)
    IN IF ~AlertsSortThrows(list)
       THEN /\ last' = [op |-> "getAlerts", userId |-> userId, status |-> 200,
                        body |-> GetAlertsByUser(alerts, userId)]
            /\ UNCHANGED stores
       ELSE \/ /\ last' = [op |-> "getAlerts", userId |-> userId, status |-> 0,
                           body |-> <<>>]
               /\ UNCHANGED stores
            \/ ProcessExit

\* time passes between two requests
Tick ==
    /\ clock < MaxClock
    /\ clock' = clock + 1
    /\ UNCHANGED <<stores, last, pending, zone>>

NextAlerts ==
    \/ /\ Created < MaxPosted
       /\ \E body \in SameCategoryBudgetBodies : PostBudget(1, body)
       /\ UNCHANGED <<pending, clock, zone>>
    \/ /\ Created < MaxPosted
       /\ \E body \in ExpenseBodies : PostTransaction(1, body)
       /\ UNCHANGED <<pending, clock, zone>>
    \/ /\ \E u \in Users, id \in PathIds(alerts, currentAlertId) : PostAlertRead(u, id)
       /\ UNCHANGED <<pending, clock, zone>>
    \/ /\ \E u \in Users : GetAlerts(u)
       /\ UNCHANGED <<pending, clock, zone>>
    \/ /\ PostRestore(BackupWithAlerts)
       /\ UNCHANGED <<pending, clock, zone>>
    \/ Tick

SpecAlerts == Init /\ [][NextAlerts]_vars

---------------------------------------------------------------------------
(* The write paths with amounts and ids of every kind: negative amounts,   *)
(* amounts that are no numbers, and update bodies that name an id          *)

\* no transaction or budget is created in this specification once the two id
\* counters have handed out this many ids
MaxWritten == 2

\* request bodies of POST /api/transactions and rows of an uploaded CSV: the
\* amounts "95", "-5" and "abc"
WrittenTxBodies ==
    { TxBody(95, DateFeb1, 1, FALSE),
      TxBody(-5, DateFeb1, 1, FALSE),
      TxBody(NotANumber, DateFeb1, 1, FALSE) }

\* request bodies of PUT /api/transactions/:id
WrittenTxUpdates == { [amount |-> -5], [amount |-> NotANumber], [id |-> 9] }

\* request bodies of POST /api/budgets: the amounts "100" and "abc"
WrittenBudgetBodies == { BudgetBody(1, 100), BudgetBody(1, NotANumber) }

\* request bodies of PUT /api/budgets/:id
WrittenBudgetUpdates == { [amount |-> NotANumber] }

\* the ids a request names in its path: the keys in use, the id fields of
\* the stored records, and one never used
PathIdsOfRecords(s, counter) == Keys(s) \cup {s[i].id : i \in 1..Len(s)} \cup {counter}

NextWrites ==
    \/ /\ UNCHANGED <<pending, clock, zone>>
       /\ \/ /\ Created + Uploading(pending) < MaxWritten
             /\ \E body \in WrittenTxBodies : PostTransaction(1, body)
          \/ \E u \in Users, id \in PathIdsOfRecords(transactions, currentTransactionId),
                body \in WrittenTxUpdates : PutTransaction(u, id, body)
          \/ /\ Created + Uploading(pending) < MaxWritten
             /\ \E body \in WrittenBudgetBodies : PostBudget(1, body)
          \/ \E u \in Users, id \in PathIdsOfRecords(budgets, currentBudgetId),
                body \in WrittenBudgetUpdates : PutBudget(u, id, body)
    \/ /\ UNCHANGED <<clock, zone>>
       /\ \/ /\ Created + Uploading(pending) < MaxWritten
             /\ \E row \in WrittenTxBodies : UploadCsv(1, [columns |-> TRUE, records |-> <<row>>])
          \/ \E i \in 1..Len(pending), made \in BOOLEAN : WriteCsvFile(i, made)
          \/ \E i \in 1..Len(pending), written \in BOOLEAN : CreateRecords(i, written)

SpecWrites == Init /\ [][NextWrites]_vars

---------------------------------------------------------------------------
(* POST /api/transactions, POST /api/budgets and PUT /api/transactions/:id  *)
(* between their awaits.  A repository call of MemStorage reads or writes   *)
(* the store when it is called; the handler that awaits it gives way and    *)
(* goes on in a later turn, and the handlers of requests that have arrived  *)
(* together go on in turns, so the steps of several requests interleave.    *)
(* The handler of POST /api/transactions awaits createTransaction, calls    *)
(* checkBudgetAlerts without awaiting it and answers; checkBudgetAlerts     *)
(* goes on from await to await after the answer.                            *)

\* no POST /api/budgets and no POST /api/transactions is taken once this
\* many of its kind are in `pending`
MaxRequests == 2

\* an amount Number() throws a TypeError on: the object {"toString": null},
\* which has neither a primitive valueOf nor a toString to call
Unconvertible == -2000000

\* no PUT /api/transactions/:id is taken once this many are in `pending`
MaxUpdates == 1

\* a request between its awaits: the record it has created or names (key,
\* categoryId, amount), where it stands (pc), what it has answered (status,
\* 0 before the answer), what its repository calls have returned, and the
\* alert it has created (0 for none)
Request(op, userId, record) ==
    [op |-> op, userId |-> userId, key |-> record.key,
     categoryId |-> record.categoryId, amount |-> record.amount,
     pc |-> "created", status |-> 0,
     budgetsRead |-> <<>>, transactionsRead |-> <<>>, insert |-> <<>>,
     alert |-> 0]

\* the request is over: what it has read is dropped
Over(r, pc) ==
    [r EXCEPT !.pc = pc, !.budgetsRead = <<>>, !.transactionsRead = <<>>,
              !.insert = <<>>]

\* what the handler answers request i
Answered(i, status) ==
    [op |-> "answered", userId |-> pending[i].userId, status |-> status,
     request |-> i]

\* POST /api/budgets: validation and createBudget, up to the await
BeginPostBudget(userId, body) ==
    IF ~InsertBudgetOk(body)
    THEN /\ last' = Rejected(400)
         /\ UNCHANGED <<stores, pending, clock, zone>>
    ELSE LET budget == CreateBudget(currentBudgetId,
                                    [userId |-> userId,
                                     categoryId |-> body.categoryId,
                                     amount |-> body.amount])
         IN /\ budgets' = MapSet(budgets, budget)
            /\ currentBudgetId' = currentBudgetId + 1
            /\ pending' = Append(pending, Request("postBudget", userId, budget))
            /\ UNCHANGED <<transactions, categories, alerts, currentTransactionId,
                           currentCategoryId, currentAlertId, last, clock, zone>>

\* POST /api/budgets resumes with the budget and answers 201
AnswerBudget(i) ==
    /\ pending[i].op = "postBudget"
    /\ pending[i].pc = "created"
    /\ pending' = [pending EXCEPT ![i].pc = "done", ![i].status = 201]
    /\ last' = Answered(i, 201)
    /\ UNCHANGED <<stores, clock, zone>>

\* POST /api/transactions: validation and createTransaction, up to the await
BeginPost(userId, body) ==
    IF ~InsertTransactionOk(body)
    THEN /\ last' = Rejected(400)
         /\ UNCHANGED <<stores, pending, clock, zone>>
    ELSE LET transaction ==
                 CreateTransaction(currentTransactionId,
                                   [userId |-> userId, amount |-> body.amount,
                                    date |-> body.date,
                                    categoryId |-> body.categoryId,
                                    isIncome |-> body.isIncome])
         IN /\ transactions' = MapSet(transactions, transaction)
            /\ currentTransactionId' = currentTransactionId + 1
            /\ pending' = Append(pending,
                                 Request("postTransaction", userId, transaction))
            /\ UNCHANGED <<budgets, categories, alerts, currentBudgetId,
                           currentCategoryId, currentAlertId, last, clock, zone>>

\* the handler resumes: checkBudgetAlerts is called and calls
\* getBudgetsByUser, and the handler answers 201
CallCheck(i) ==
    /\ pending[i].op = "postTransaction"
    /\ pending[i].pc = "created"
    /\ pending' = [pending EXCEPT ![i].pc = "budgets", ![i].status = 201,
                                  ![i].budgetsRead =
                                      GetBudgetsByUser(budgets, pending[i].userId)]
    /\ last' = Answered(i, 201)
    /\ UNCHANGED <<stores, clock, zone>>

\* checkBudgetAlerts resumes with the budgets: without a budget for the
\* category it returns, with one it calls getTransactionsByUser
FindBudget(i) ==
    /\ pending[i].pc = "budgets"
    /\ pending' =
          IF SelectSeq(pending[i].budgetsRead,
                       LAMBDA b : b.categoryId = pending[i].categoryId) = <<>>
          THEN [pending EXCEPT ![i] = Over(pending[i], "done")]
          ELSE [pending EXCEPT ![i].pc = "transactions",
                               ![i].transactionsRead =
                                   GetTransactionsByUser(transactions, pending[i].userId)]
    /\ UNCHANGED <<stores, last, clock, zone>>

\* checkBudgetAlerts resumes with the transactions.  Number(t.amount) throws
\* on a transaction the reduce comes to, and the promise of checkBudgetAlerts
\* is rejected; or it computes the percentage and returns, or calls
\* getCategoryById for the alert it is going to create
Classify(i) ==
    /\ pending[i].pc = "transactions"
    /\ pending' =
          IF LET summed == CategoryTransactions(pending[i].transactionsRead,
                                                pending[i].categoryId, zone)
             IN \E j \in 1..Len(summed) : summed[j].amount = Unconvertible
          THEN [pending EXCEPT ![i] = Over(pending[i], "failed")]
          ELSE LET check == CheckBudgetAlerts(pending[i].budgetsRead,
                                              pending[i].transactionsRead,
                                              categories, pending[i].userId,
                                              pending[i].categoryId,
                                              pending[i].amount, zone)
               IN IF check.inserts = <<>>
                  THEN [pending EXCEPT ![i] = Over(pending[i], "done")]
                  ELSE [pending EXCEPT ![i].pc = "category",
                                       ![i].insert = check.inserts]
    /\ UNCHANGED <<stores, last, clock, zone>>

\* checkBudgetAlerts resumes with the category and calls createAlert
EmitAlert(i) ==
    /\ pending[i].pc = "category"
    /\ alerts' = MapSet(alerts, CreateAlert(currentAlertId, pending[i].insert[1], clock))
    /\ currentAlertId' = currentAlertId + 1
    /\ pending' = [pending EXCEPT ![i] = [Over(pending[i], "done") EXCEPT
                                             !.alert = currentAlertId]]
    /\ UNCHANGED <<transactions, budgets, categories, currentTransactionId,
                   currentBudgetId, currentCategoryId, last, clock, zone>>

NextAsync ==
    \/ /\ Len(SelectSeq(pending, LAMBDA r : r.op = "postBudget")) < MaxRequests
       /\ BeginPostBudget(1, BudgetBody(1, 100))
    \/ \E i \in 1..Len(pending) : AnswerBudget(i)
    \/ /\ Len(SelectSeq(pending, LAMBDA r : r.op = "postTransaction")) < MaxRequests
       /\ \E body \in {TxBody(48, DateFeb1, 1, FALSE), TxBodyNoDate} :
             BeginPost(1, body)
    \/ \E i \in 1..Len(pending) : CallCheck(i)
    \/ \E i \in 1..Len(pending) : FindBudget(i)
    \/ \E i \in 1..Len(pending) : Classify(i)
    \/ \E i \in 1..Len(pending) : EmitAlert(i)

SpecAsync == Init /\ [][NextAsync]_vars

(* An evaluation that throws.  PUT /api/transactions/:id stores the body it *)
(* is sent without validating it, and the reduce of checkBudgetAlerts calls *)
(* Number() on every stored amount of the category.  checkBudgetAlerts has  *)
(* no try/catch and the handler neither awaits its promise nor attaches a   *)
(* catch to it, so the TypeError is an unhandled rejection of the process,  *)
(* and index.ts registers no handler for it.  What the runtime does with    *)
(* one depends on its version and flags: it warns and goes on, or it ends   *)
(* the process, and the Maps of MemStorage with it.  Both outcomes are      *)
(* steps here.                                                              *)

\* PUT /api/transactions/:id: getTransactionsByUser, up to the await
BeginPut(userId, id, body) ==
    /\ pending' = Append(pending,
                         [Request("putTransaction", userId,
                                  [key |-> id, categoryId |-> 0,
                                   amount |-> body.amount])
                          EXCEPT !.pc = "owned",
                                 !.transactionsRead =
                                     GetTransactionsByUser(transactions, userId)])
    /\ UNCHANGED <<stores, last, clock, zone>>

\* the handler resumes with the transactions of the user: it answers 404
\* when the id is not among them, and calls updateTransaction with the body
\* otherwise (the bodies of this specification name the amount only), which
\* throws when the Map has no such transaction
UpdateOwned(i) ==
    /\ pending[i].pc = "owned"
    /\ IF SelectSeq(pending[i].transactionsRead,
                    LAMBDA t : t.id = pending[i].key) = <<>>
       THEN /\ pending' = [pending EXCEPT ![i] = [Over(pending[i], "done") EXCEPT
                                                     !.status = 404]]
            /\ last' = Answered(i, 404)
            /\ UNCHANGED stores
       ELSE /\ transactions' =
                  IF MapHas(transactions, pending[i].key)
                  THEN UpdateTransaction(transactions, pending[i].key,
                                         [amount |-> pending[i].amount])
                  ELSE transactions
            /\ pending' = [pending EXCEPT ![i] =
                              Over(pending[i],
                                   IF MapHas(transactions, pending[i].key)
                                   THEN "updated" ELSE "refused")]
            /\ UNCHANGED <<budgets, categories, alerts, currentTransactionId,
                           currentBudgetId, currentCategoryId, currentAlertId, last>>
    /\ UNCHANGED <<clock, zone>>

\* the handler resumes with the updated transaction and answers it, or in
\* its catch and answers 400
AnswerPut(i) ==
    /\ pending[i].pc \in {"updated", "refused"}
    /\ pending' = [pending EXCEPT ![i].pc = "done",
                                  ![i].status = IF pending[i].pc = "updated"
                                                THEN 200 ELSE 400]
    /\ last' = Answered(i, IF pending[i].pc = "updated" THEN 200 ELSE 400)
    /\ UNCHANGED <<stores, clock, zone>>

\* the runtime reports the unhandled rejection and goes on
WarnUnhandledRejection(i) ==
    /\ pending[i].pc = "failed"
    /\ pending' = [pending EXCEPT ![i].pc = "warned"]
    /\ UNCHANGED <<stores, last, clock, zone>>

\* the runtime ends the process on the unhandled rejection: the stores are
\* those of a process started anew, and the requests under way are gone
\* with it, unanswered if they had not answered
ExitOnUnhandledRejection(i) ==
    /\ pending[i].pc = "failed"
    /\ pending' = [j \in 1..Len(pending) |->
                      IF pending[j].pc \in {"done", "warned", "exited", "lost"}
                      THEN pending[j]
                      ELSE IF pending[j].pc = "failed"
                      THEN Over(pending[j], "exited")
                      ELSE Over(pending[j], "lost")]
    /\ ProcessExit
    /\ UNCHANGED <<clock, zone>>

NextFailing ==
    \/ NextAsync
    \/ /\ Len(SelectSeq(pending, LAMBDA r : r.op = "putTransaction")) < MaxUpdates
       /\ \E id \in Keys(transactions) : BeginPut(1, id, [amount |-> Unconvertible])
    \/ \E i \in 1..Len(pending) : UpdateOwned(i)
    \/ \E i \in 1..Len(pending) : AnswerPut(i)
    \/ \E i \in 1..Len(pending) : WarnUnhandledRejection(i)
    \/ \E i \in 1..Len(pending) : ExitOnUnhandledRejection(i)

SpecFailing == Init /\ [][NextFailing]_vars

---------------------------------------------------------------------------
(* GET /api/categories between its awaits: getCategories, the eight calls   *)
(* of createCategory, getCategories again.  At every await the handler      *)
(* gives way, and the handlers of requests that have arrived together       *)
(* (pipelined on one connection) go on in turns, so the steps of several    *)
(* requests interleave; a restore is a request like the others.             *)

\* no request, GET /api/categories or restore, is taken once this many are
\* in `pending`
MaxTaken == 3

\* createCategory(defaultCategories[n])
SeedCategory(n) ==
    /\ categories' = MapSet(categories, [key |-> currentCategoryId,
                                         id |-> currentCategoryId,
                                         name |-> SeedCategoryNames[n]])
    /\ currentCategoryId' = currentCategoryId + 1

\* the handler starts and calls getCategories
BeginGetCategories(userId) ==
    /\ pending' = Append(pending, [op |-> "getCategories", userId |-> userId,
                                   pc |-> "read", read |-> categories,
                                   seeded |-> FALSE, n |-> 0])
    /\ UNCHANGED <<stores, last, clock, zone>>

\* the handler resumes with the categories: it answers them, or, when there
\* are none, calls createCategory for the first default category
TestEmpty(i) ==
    /\ pending[i].pc = "read"
    /\ IF pending[i].read # <<>>
       THEN /\ pending' = [pending EXCEPT ![i].pc = "done", ![i].read = <<>>]
            /\ last' = [op |-> "getCategories", userId |-> pending[i].userId,
                        status |-> 200, body |-> pending[i].read]
            /\ UNCHANGED stores
       ELSE /\ SeedCategory(1)
            /\ pending' = [pending EXCEPT ![i].pc = "seed", ![i].seeded = TRUE,
                                          ![i].n = 1]
            /\ UNCHANGED <<transactions, budgets, alerts, currentTransactionId,
                           currentBudgetId, currentAlertId, last>>
    /\ UNCHANGED <<clock, zone>>

\* the loop resumes: createCategory for the next default category, or
\* getCategories after the last
SeedNext(i) ==
    /\ pending[i].pc = "seed"
    /\ IF pending[i].n < Len(SeedCategoryNames)
       THEN /\ SeedCategory(pending[i].n + 1)
            /\ pending' = [pending EXCEPT ![i].n = pending[i].n + 1]
            /\ UNCHANGED <<transactions, budgets, alerts, currentTransactionId,
                           currentBudgetId, currentAlertId>>
       ELSE /\ pending' = [pending EXCEPT ![i].pc = "reread", ![i].read = categories]
            /\ UNCHANGED stores
    /\ UNCHANGED <<last, clock, zone>>

\* the handler resumes with the categories read again and answers them
AnswerCategories(i) ==
    /\ pending[i].pc = "reread"
    /\ pending' = [pending EXCEPT ![i].pc = "done", ![i].read = <<>>]
    /\ last' = [op |-> "getCategories", userId |-> pending[i].userId,
                status |-> 200, body |-> pending[i].read]
    /\ UNCHANGED <<stores, clock, zone>>

\* POST /api/admin/database/restore of a backup that leaves the category
\* store empty: restoreFromBackup, up to the await.  The Maps are cleared and
\* loaded at the call, and nothing is answered yet.
RestoreEmptyCategories ==
    LET backup == BackupAlertsOnly
        stage == FirstThrowing(backup)
    IN /\ categories' = RestoredMap(backup.categories, 1, stage)
       /\ currentCategoryId' = RestoredId(backup.categories, currentCategoryId, 1, stage)
       /\ transactions' = RestoredMap(backup.transactions, 2, stage)
       /\ currentTransactionId' =
              RestoredId(backup.transactions, currentTransactionId, 2, stage)
       /\ budgets' = RestoredMap(backup.budgets, 3, stage)
       /\ currentBudgetId' = RestoredId(backup.budgets, currentBudgetId, 3, stage)
       /\ alerts' = RestoredMap(backup.alerts, 4, stage)
       /\ currentAlertId' = RestoredId(backup.alerts, currentAlertId, 4, stage)
       /\ pending' = Append(pending, [op |-> "postRestore", userId |-> 0,
                                      pc |-> IF stage = 8 THEN "restored" ELSE "refused",
                                      read |-> <<>>, seeded |-> FALSE, n |-> 0])
       /\ UNCHANGED <<last, clock, zone>>

\* the handler of the restore resumes with what restoreFromBackup returned
\* and answers 200, or 500
AnswerRestore(i) ==
    /\ pending[i].pc \in {"restored", "refused"}
    /\ pending' = [pending EXCEPT ![i].pc = "done"]
    /\ last' = [op |-> "postRestore", userId |-> 0,
                status |-> IF pending[i].pc = "restored" THEN 200 ELSE 500]
    /\ UNCHANGED <<stores, clock, zone>>

NextCategories ==
    \/ /\ Len(pending) < MaxTaken
       /\ BeginGetCategories(1)
    \/ \E i \in 1..Len(pending) : TestEmpty(i)
    \/ \E i \in 1..Len(pending) : SeedNext(i)
    \/ \E i \in 1..Len(pending) : AnswerCategories(i)
    \/ /\ Len(pending) < MaxTaken
       /\ RestoreEmptyCategories
    \/ \E i \in 1..Len(pending) : AnswerRestore(i)

SpecCategories == Init /\ [][NextCategories]_vars

---------------------------------------------------------------------------

(* Two users with records of their own, and update bodies that name the     *)
(* fields id and userId                                                     *)

\* no transaction or budget is created in this specification once the two id
\* counters have handed out this many ids
MaxOwned == 2


\* request bodies of PUT /api/transactions/:id and PUT /api/budgets/:id
OwnerUpdates == { [amount |-> 150], [id |-> 1], [userId |-> 2] }

NextOwners ==
    \/ /\ Created < MaxOwned
       /\ \E u \in Users : PostTransaction(u, TxBody(95, DateFeb1, 1, FALSE))
       /\ UNCHANGED <<pending, clock, zone>>
    \/ /\ Created < MaxOwned
       /\ \E u \in Users : PostBudget(u, BudgetBody(1, 100))
       /\ UNCHANGED <<pending, clock, zone>>
    \/ /\ \E u \in Users, id \in PathIdsOfRecords(transactions, currentTransactionId),
             body \in OwnerUpdates : PutTransaction(u, id, body)
       /\ UNCHANGED <<pending, clock, zone>>
    \/ /\ \E u \in Users, id \in PathIdsOfRecords(transactions, currentTransactionId) :
             DeleteTransaction(u, id)
       /\ UNCHANGED <<pending, clock, zone>>
    \/ /\ \E u \in Users, id \in PathIdsOfRecords(budgets, currentBudgetId),
             body \in OwnerUpdates : PutBudget(u, id, body)
       /\ UNCHANGED <<pending, clock, zone>>
    \/ /\ \E u \in Users, id \in PathIdsOfRecords(budgets, currentBudgetId) :
             DeleteBudget(u, id)
       /\ UNCHANGED <<pending, clock, zone>>

SpecOwners == Init /\ [][NextOwners]_vars

---------------------------------------------------------------------------

(* What each of two users is answered when both have records *)

\* no transaction or budget is created in this specification once the two id
\* counters have handed out this many ids
MaxIsolated == 4

\* request bodies of POST /api/transactions and POST /api/budgets
IsolatedTxBodies == { TxBody(95, DateFeb1, 1, FALSE) }
IsolatedBudgetBodies == { BudgetBody(1, 100) }

\* transactionsWithCategory of GET /api/transactions
TransactionsWithCategory(txs, cats, userId) ==
    LET list == GetTransactionsByUser(txs, userId)
    IN [i \in 1..Len(list) |->
           [id |-> list[i].id, userId |-> list[i].userId, amount |-> list[i].amount,
            date |-> list[i].date, categoryId |-> list[i].categoryId,
            isIncome |-> list[i].isIncome,
            category |-> CategoryNameById(cats, list[i].categoryId)]]

\* GET /api/transactions
GetTransactions(userId) ==
    /\ last' = [op |-> "getTransactions", userId |-> userId, status |-> 200,
                body |-> TransactionsWithCategory(transactions, categories, userId)]
    /\ UNCHANGED stores

NextIsolation ==
    \/ /\ Created < MaxIsolated
       /\ \E u \in Users, body \in IsolatedTxBodies : PostTransaction(u, body)
       /\ UNCHANGED <<pending, clock, zone>>
    \/ /\ Created < MaxIsolated
       /\ \E u \in Users, body \in IsolatedBudgetBodies : PostBudget(u, body)
       /\ UNCHANGED <<pending, clock, zone>>
    \/ /\ \E u \in Users : GetSummary(u)
       /\ UNCHANGED <<pending, clock, zone>>
    \/ /\ \E u \in Users : GetBudgets(u)
       /\ UNCHANGED <<pending, clock, zone>>
    \/ /\ \E u \in Users : GetTransactions(u)
       /\ UNCHANGED <<pending, clock, zone>>
    \/ /\ \E u \in Users : GetAlerts(u)
       /\ UNCHANGED <<pending, clock, zone>>

SpecIsolation == Init /\ [][NextIsolation]_vars

---------------------------------------------------------------------------

(* Restores that succeed, that are refused and that fail on the way, among  *)
(* creations and deletions                                                  *)

\* no transaction and no budget is created in this specification once its id
\* counter is above this, and no GET /api/categories is taken once the id
\* counter of the categories is above that of this many seedings
MaxRestored == 2

\* the records of the backups below
BackupTransaction ==
    CreateTransaction(2, [userId |-> 1, amount |-> 45, date |-> DateFeb1,
                          categoryId |-> 1, isIncome |-> FALSE])
BackupBudget == CreateBudget(1, [userId |-> 1, categoryId |-> 1, amount |-> 100])

\* a backup with every list: one transaction under id 2, one budget under id 1
BackupFull ==
    [timestamp |-> TRUE,
     categories |-> List(CategoriesFrom(1, DefaultCategoryNames)),
     transactions |-> List(<<BackupTransaction>>),
     budgets |-> List(<<BackupBudget>>),
     alerts |-> List(<<>>)]

\* the same backup with a null entry at the end of its transactions
BackupNullTransaction ==
    [BackupFull EXCEPT !.transactions = List(<<BackupTransaction, NullEntry>>)]

\* request bodies of POST /api/admin/database/restore: the backups above, and
\* BackupFull with a list of users, or of deals, whose entry is null
RestoreBackups ==
    {BackupNoTimestamp, BackupFull, BackupNullTransaction}
    \cup { [x \in DOMAIN BackupFull \cup {name} |->
               IF x = name THEN List(<<NullEntry>>) ELSE BackupFull[x]] :
           name \in {"users", "deals"} }

NextRestore ==
    \/ /\ currentTransactionId <= MaxRestored
       /\ PostTransaction(1, TxBody(95, DateFeb1, 1, FALSE))
       /\ UNCHANGED <<pending, clock, zone>>
    \/ /\ currentBudgetId <= MaxRestored
       /\ PostBudget(1, BudgetBody(1, 100))
       /\ UNCHANGED <<pending, clock, zone>>
    \/ /\ \E id \in PathIds(transactions, currentTransactionId) : DeleteTransaction(1, id)
       /\ UNCHANGED <<pending, clock, zone>>
    \/ /\ \E id \in PathIds(budgets, currentBudgetId) : DeleteBudget(1, id)
       /\ UNCHANGED <<pending, clock, zone>>
    \/ /\ currentCategoryId
             <= Len(DefaultCategoryNames) + MaxRestored * Len(SeedCategoryNames)
       /\ GetCategories(1)
       /\ UNCHANGED <<pending, clock, zone>>
    \/ /\ \E backup \in RestoreBackups : PostRestore(backup)
       /\ UNCHANGED <<pending, clock, zone>>

SpecRestore == Init /\ [][NextRestore]_vars

---------------------------------------------------------------------------
(* What the properties below are stated with: sums and sets taken over the *)
(* keys of the stores                                                      *)

RECURSIVE SumOfKeys(_, _)
\* the sum of the amounts stored under the keys K
SumOfKeys(store, K) ==
    IF K = {} THEN 0
    ELSE LET k == CHOOSE x \in K : TRUE
         IN MapGet(store, k).amount + SumOfKeys(store, K \ {k})

\* the stored expenses of user u in category c dated in the current month
\* and year
SpentKeys(u, c) ==
    {k \in Keys(transactions) :
        LET t == MapGet(transactions, k)
        IN /\ t.userId = u
           /\ t.categoryId = c
           /\ ~t.isIncome
           /\ t.date.m = Today.m
           /\ t.date.y = Today.y}

\* user u has a budget for category c
UserHasBudget(u, c) ==
    \E k \in Keys(budgets) :
        MapGet(budgets, k).userId = u /\ MapGet(budgets, k).categoryId = c

\* the last request was a POST /api/transactions that created a transaction
\* in a category the user has a budget for
PostedWithBudget ==
    /\ last.op = "postTransaction"
    /\ last.check.hasBudget

\* the POST created an alert of this type and title for its user
CreatedAlertIs(type, text) ==
    /\ last.alert # 0
    /\ MapHas(alerts, last.alert)
    /\ MapGet(alerts, last.alert).userId = last.userId
    /\ MapGet(alerts, last.alert).type = type
    /\ MapGet(alerts, last.alert).title.text = text

---------------------------------------------------------------------------
(* The budget-alert evaluator *)

\* C1, as the specification states it: after POST /api/transactions has
\* created a current-month expense in a category the user has a budget of
\* limit L > 0 for, the total that checkBudgetAlerts classified is the sum of
\* the user's stored current-month expenses of the category, the new one
\* counted once; with L = 100 and nothing stored before, an expense of 95 gives
\* a warning alert that reports 95%.
C1_NewTransactionCountedOnce ==
    (/\ PostedWithBudget
     /\ last.check.limit > 0
     /\ ~last.transaction.isIncome
     /\ last.transaction.date.m = Today.m
     /\ last.transaction.date.y = Today.y)
    => /\ last.check.totalSpent =
              SumOfKeys(transactions, SpentKeys(last.userId, last.transaction.categoryId))
       /\ (/\ last.check.limit = 100
           /\ last.transaction.amount = 95
           /\ SpentKeys(last.userId, last.transaction.categoryId) = {last.transaction.key})
          => /\ CreatedAlertIs("warning", "Budget Warning")
             /\ MapGet(alerts, last.alert).message.pct = [kind |-> "num", v |-> 95]

\* the double p is above the whole number k >= 0, and is at most k: both by
\* the whole numbers p and k are of the last bit of p, both false on NaN
Above(p, k) ==
    \/ p.kind = "inf"
    \/ /\ p.kind = "num"
       /\ p.s > 0
       /\ BigCompare(p.m, ShiftLeft(FromInt(k), -p.e)) > 0
AtMost(p, k) ==
    \/ p.kind = "-inf"
    \/ /\ p.kind = "num"
       /\ p.s <= 0 \/ BigCompare(p.m, ShiftLeft(FromInt(k), -p.e)) <= 0

\* C2: with a budget of limit L > 0 in the transaction's category and
\* p the Number totalSpent / L * 100, checkBudgetAlerts creates no alert when
\* p <= 90, a 'warning' alert titled "Budget Warning" when 90 < p <= 100 and
\* an 'error' alert titled "Budget Alert" when p > 100; a total of exactly
\* nine tenths of L gives no alert and a total of exactly L a warning.
C2_AlertThresholds ==
    (PostedWithBudget /\ last.check.limit > 0)
    => LET s == last.check.totalSpent
           L == last.check.limit
           p == last.check.percentage
       IN /\ p = Times(Div(s, L), 100)
          /\ AtMost(p, 90) => last.alert = 0
          /\ (Above(p, 90) /\ AtMost(p, 100))
             => CreatedAlertIs("warning", "Budget Warning")
          /\ Above(p, 100) => CreatedAlertIs("error", "Budget Alert")
          /\ (IsNumber(s) /\ 100 * s = 90 * L) => last.alert = 0
          /\ s = L => CreatedAlertIs("warning", "Budget Warning")

\* C2's case: the percentage is exactly 90, and no alert was created
C2_Witness ==
    /\ PostedWithBudget
    /\ last.check.limit > 0
    /\ 100 * last.check.totalSpent = 90 * last.check.limit
    /\ last.alert = 0
    /\ alerts = <<>>

\* C3: a POST /api/transactions that creates a transaction in a category the
\* user has no budget for creates no alert: the alert store and its id counter
\* are what they were before the request.
C3_NoBudgetNoAlert ==
    [][(/\ last'.op = "postTransaction"
        /\ ~UserHasBudget(last'.userId, last'.transaction.categoryId))
       => (alerts' = alerts /\ currentAlertId' = currentAlertId)]_vars

\* C3's case: a current-month expense of 95 was created by a user without a
\* budget for its category, while another user has a budget of 100 for it
C3_Witness ==
    /\ last.op = "postTransaction"
    /\ ~UserHasBudget(last.userId, last.transaction.categoryId)
    /\ \E k \in Keys(budgets) :
          /\ MapGet(budgets, k).categoryId = last.transaction.categoryId
          /\ MapGet(budgets, k).amount = 100
    /\ last.transaction.amount = 95
    /\ ~last.transaction.isIncome
    /\ last.transaction.date = DateFeb1
    /\ MapHas(transactions, last.transaction.key)
    /\ alerts = <<>>

\* C4, as the specification states it: when the budget checkBudgetAlerts finds
\* for the category has limit 0, the percentage is taken as 0 and no alert is
\* created, whatever was spent.
C4_ZeroLimitGuarded ==
    (PostedWithBudget /\ last.check.limit = 0)
    => /\ last.check.percentage = Zero
       /\ last.alert = 0

---------------------------------------------------------------------------
(* The alert store *)

\* every alert of the store before a step is in the store after it, with the
\* userId, title, message and type it had
AlertsKept ==
    \A k \in Keys(alerts) :
        /\ MapHas(alerts', k)
        /\ MapGet(alerts', k).userId = MapGet(alerts, k).userId
        /\ MapGet(alerts', k).title = MapGet(alerts, k).title
        /\ MapGet(alerts', k).message = MapGet(alerts, k).message
        /\ MapGet(alerts', k).type = MapGet(alerts, k).type

---------------------------------------------------------------------------
(* The financial summary and the budgets with their spent totals *)

\* the stored transactions of user u
UserKeys(u) == {k \in Keys(transactions) : MapGet(transactions, k).userId = u}

\* the stored transactions of user u with this income flag
FlowKeys(u, isIncome) ==
    {k \in UserKeys(u) : MapGet(transactions, k).isIncome = isIncome}

\* those of them dated in the current month and year
MonthFlowKeys(u, isIncome) ==
    {k \in FlowKeys(u, isIncome) :
        /\ MapGet(transactions, k).date.m = Today.m
        /\ MapGet(transactions, k).date.y = Today.y}

\* those of them the server, in its zone, takes for the current month
CountedFlowKeys(u, isIncome) ==
    {k \in FlowKeys(u, isIncome) : InCurrentMonth(MapGet(transactions, k).date, zone)}

\* the stored expenses of user u in category c the server takes for the
\* current month
CountedSpentKeys(u, c) ==
    {k \in CountedFlowKeys(u, FALSE) : MapGet(transactions, k).categoryId = c}

\* the double q is within 1 of the whole number |n| div d: what ties the
\* rounded arithmetic to the exact quotient
NearQuotient(q, n, d) ==
    /\ q.kind = "num"
    /\ Abs(Whole(q) - (Abs(n) \div d)) <= 1

\* the budgets of user u
BudgetKeys(u) == {k \in Keys(budgets) : MapGet(budgets, k).userId = u}

\* date a is not after date b
NotAfter(a, b) ==
    \/ a.y < b.y
    \/ a.y = b.y /\ a.m < b.m
    \/ a.y = b.y /\ a.m = b.m /\ a.d <= b.d

\* the incomes of user u that no income of u is dated after
LatestIncomeKeys(u) ==
    {k \in FlowKeys(u, TRUE) :
        \A j \in FlowKeys(u, TRUE) :
            NotAfter(MapGet(transactions, j).date, MapGet(transactions, k).date)}

\* the same day of the following calendar month
SameDayNextMonth(date) ==
    IF date.m = 12 THEN [y |-> date.y + 1, m |-> 1, d |-> date.d]
    ELSE [y |-> date.y, m |-> date.m + 1, d |-> date.d]

\* C5: the balance GET /api/summary answers is the sum over all of the user's
\* stored transactions, of every month and year, of +amount for an income and
\* -amount for an expense.
C5_BalanceIsSignedSum ==
    last.op = "getSummary"
    => last.body.balance = SumOfKeys(transactions, FlowKeys(last.userId, TRUE))
                           - SumOfKeys(transactions, FlowKeys(last.userId, FALSE))

\* C5's case: the user has an income and an expense, one of them outside the
\* current month
C5_Witness ==
    /\ last.op = "getSummary"
    /\ FlowKeys(last.userId, TRUE) # {}
    /\ FlowKeys(last.userId, FALSE) # {}
    /\ MonthFlowKeys(last.userId, TRUE) \cup MonthFlowKeys(last.userId, FALSE)
          # UserKeys(last.userId)
    /\ last.body.balance # 0

\* C6, as the specification states it: monthlyIncome is the sum of the user's
\* incomes, and monthlyExpenses of the user's expenses, dated in the current
\* month of the current year.
C6_MonthlyTotals ==
    last.op = "getSummary"
    => /\ last.body.monthlyIncome =
              SumOfKeys(transactions, MonthFlowKeys(last.userId, TRUE))
       /\ last.body.monthlyExpenses =
              SumOfKeys(transactions, MonthFlowKeys(last.userId, FALSE))

\* C7: with totalBudgeted the sum of the limits of the user's budgets,
\* budgetDifference is 0 when totalBudgeted is not positive, and otherwise the
\* Number (monthlyExpenses / totalBudgeted - 1) * 100: positive exactly when
\* the month's expenses exceed totalBudgeted, negative exactly when they are
\* below.
C7_BudgetDifference ==
    last.op = "getSummary"
    => LET tb == SumOfKeys(budgets, BudgetKeys(last.userId))
           me == last.body.monthlyExpenses
           bd == last.body.budgetDifference
       IN /\ bd.kind = "num"
          /\ tb <= 0 => bd = Zero
          /\ tb > 0 => /\ bd = Times(Minus(Div(me, tb), 1), 100)
                       /\ NearQuotient(bd, (me - tb) * 100, tb)
                       /\ bd.s > 0 <=> me > tb
                       /\ bd.s < 0 <=> me < tb

\* C7's case: the user's expenses of the month exceed a positive budgeted
\* total
C7_Witness ==
    /\ last.op = "getSummary"
    /\ SumOfKeys(budgets, BudgetKeys(last.userId)) > 0
    /\ last.body.monthlyExpenses > SumOfKeys(budgets, BudgetKeys(last.userId))
    /\ last.body.budgetDifference.s > 0

\* C8, as the specification states it: every budget GET /api/budgets answers
\* is a budget of the user; its spent is the sum of the user's expenses of its
\* category dated in the current month and year, and its percentage is the
\* Number spent / limit * 100 when the limit is positive and 0 when it is not.
C8_BudgetsWithSpent ==
    last.op = "getBudgets"
    => /\ {last.body[i].id : i \in 1..Len(last.body)} = BudgetKeys(last.userId)
       /\ \A i \in 1..Len(last.body) :
             LET b == last.body[i]
             IN /\ b.amount = MapGet(budgets, b.id).amount
                /\ b.categoryId = MapGet(budgets, b.id).categoryId
                /\ b.spent = SumOfKeys(transactions, SpentKeys(last.userId, b.categoryId))
                /\ b.amount > 0
                   => /\ b.percentage = Times(Div(b.spent, b.amount), 100)
                      /\ NearQuotient(b.percentage, 100 * b.spent, b.amount)
                /\ b.amount <= 0 => b.percentage = Zero

\* C9, as the specification states it: the forecast is taken from an income
\* of the user that none is dated after; nextIncomeAmount is its amount and
\* nextIncomeDate the same day of the following calendar month; without
\* incomes the date is empty and the amount 0.
C9_ForecastOneMonthForward ==
    last.op = "getSummary"
    => IF FlowKeys(last.userId, TRUE) = {}
       THEN last.body.nextIncomeDate = NoDate /\ last.body.nextIncomeAmount = 0
       ELSE \E k \in LatestIncomeKeys(last.userId) :
               /\ last.body.nextIncomeAmount = MapGet(transactions, k).amount
               /\ last.body.nextIncomeDate = SameDayNextMonth(MapGet(transactions, k).date)

---------------------------------------------------------------------------
(* Alerts over successive creations *)

\* the alerts a step has added to the store
NewAlertKeys == Keys(alerts') \ Keys(alerts)

\* the budgets of user u for category c
CategoryBudgetKeys(u, c) ==
    {k \in Keys(budgets) :
        MapGet(budgets, k).userId = u /\ MapGet(budgets, k).categoryId = c}

\* C11: a POST /api/transactions whose evaluation finds a percentage above 90
\* adds exactly one alert, an unread one of the user, also when the user has
\* several budgets for the category, when the percentage is above both
\* thresholds and when an unread alert for the category is already stored; no
\* creation adds more than one, and none removes or changes a stored alert.
C11_OneAlertPerCreation ==
    [][(last'.op = "postTransaction" /\ last' # last)
       => /\ Cardinality(NewAlertKeys) <= 1
          /\ currentAlertId' = currentAlertId + Cardinality(NewAlertKeys)
          /\ \A k \in Keys(alerts) :
                MapHas(alerts', k) /\ MapGet(alerts', k) = MapGet(alerts, k)
          /\ (last'.check.hasBudget /\ Gt(last'.check.percentage, 90))
             => /\ NewAlertKeys = {last'.alert}
                /\ MapGet(alerts', last'.alert).userId = last'.userId
                /\ ~MapGet(alerts', last'.alert).read]_vars

\* C11's case: the second of two successive creations above 100 percent, by a
\* user with two budgets for the category, has added a second alert while the
\* first one is still unread
C11_Witness ==
    /\ last.op = "postTransaction"
    /\ Cardinality(CategoryBudgetKeys(last.userId, last.transaction.categoryId)) = 2
    /\ Gt(last.check.percentage, 100)
    /\ last.alert = 2
    /\ Keys(alerts) = {1, 2}
    /\ MapGet(alerts, 1).userId = last.userId
    /\ MapGet(alerts, 1).title = MapGet(alerts, 2).title
    /\ MapGet(alerts, 1).createdAt.isDate
    /\ ~MapGet(alerts, 1).read

---------------------------------------------------------------------------
(* What the write paths let into the stores *)

\* C12, as the specification states it: every stored transaction has an
\* amount that is not negative, whatever POST, PUT and CSV upload requests
\* were made.
C12_AmountsNotNegative ==
    \A k \in Keys(transactions) :
        ~(IsNumber(MapGet(transactions, k).amount) /\ MapGet(transactions, k).amount < 0)

\* C14, as the specification states it: the id field of every stored
\* transaction is the key it is stored under, whatever bodies PUT was sent.
C14_IdIsKey ==
    \A i \in 1..Len(transactions) : transactions[i].id = transactions[i].key

\* C20, as the specification states it: the amount of every stored transaction
\* and the limit of every stored budget is a number, whatever POST, PUT and
\* CSV upload requests were made.
C20_AmountsAreNumbers ==
    /\ \A i \in 1..Len(transactions) : IsNumber(transactions[i].amount)
    /\ \A i \in 1..Len(budgets) : IsNumber(budgets[i].amount)

---------------------------------------------------------------------------
(* What the evaluator counts *)

\* C13, as the specification states it: when POST /api/transactions creates
\* an income, or a transaction dated outside the current month, in a category
\* the user has a budget of limit L > 0 for, the total that checkBudgetAlerts
\* classifies is the sum of the user's stored current-month expenses of the
\* category, and no alert is created when that sum is at most 90% of L.
C13_OnlyMonthExpensesCounted ==
    (/\ PostedWithBudget
     /\ last.check.limit > 0
     /\ \/ last.transaction.isIncome
        \/ last.transaction.date.m # Today.m
        \/ last.transaction.date.y # Today.y)
    => LET spent == SumOfKeys(transactions,
                              SpentKeys(last.userId, last.transaction.categoryId))
       IN /\ last.check.totalSpent = spent
          /\ 100 * spent <= 90 * last.check.limit => last.alert = 0

---------------------------------------------------------------------------
(* The reads *)

\* C15: GET /api/summary and GET /api/budgets leave the transaction, budget,
\* category and alert stores and the id counters as they are, and what they
\* answer is computed from the stores as they are at the request: the user's
\* stored transactions and budgets, the categories and the current month, as
\* the server takes it in its zone.
C15_ReadsHaveNoEffect ==
    [][(last'.op \in {"getSummary", "getBudgets"})
       => /\ UNCHANGED stores
          /\ last'.op = "getSummary"
             => /\ last'.body = Summary(transactions', budgets', last'.userId, zone)
                /\ last'.body.balance =
                       SumOfKeys(transactions, FlowKeys(last'.userId, TRUE))
                       - SumOfKeys(transactions, FlowKeys(last'.userId, FALSE))
                /\ last'.body.monthlyExpenses =
                       SumOfKeys(transactions, CountedFlowKeys(last'.userId, FALSE))
          /\ last'.op = "getBudgets"
             => /\ last'.body = BudgetsWithDetails(transactions', budgets',
                                                  categories', last'.userId, zone)
                /\ \A i \in 1..Len(last'.body) :
                      /\ last'.body[i].spent =
                             SumOfKeys(transactions,
                                       CountedSpentKeys(last'.userId,
                                                        last'.body[i].categoryId))
                      /\ last'.body[i].category =
                             IF MapHas(categories, last'.body[i].categoryId)
                             THEN MapGet(categories, last'.body[i].categoryId).name
                             ELSE ""]_vars

\* C15's case: GET /api/budgets after a restore has emptied the category
\* store and a budget and an expense have been created since
C15_Witness ==
    /\ last.op = "getBudgets"
    /\ categories = <<>>
    /\ \E i \in 1..Len(last.body) :
          last.body[i].spent > 0 /\ last.body[i].category = ""

---------------------------------------------------------------------------
(* The read flag *)

\* what POST /api/alerts/:id/read does to the alert store: the alert with
\* this id is read and nothing else differs; without such an alert the
\* request is refused with 404 and the store is as it was
ReadOnlyThatAlert(id) ==
    IF MapHas(alerts, id)
    THEN /\ Keys(alerts') = Keys(alerts)
         /\ MapGet(alerts', id) = [MapGet(alerts, id) EXCEPT !.read = TRUE]
         /\ \A k \in Keys(alerts) \ {id} : MapGet(alerts', k) = MapGet(alerts, k)
         /\ last'.status = 200
    ELSE /\ alerts' = alerts
         /\ last' = Rejected(404)

\* every alert a step adds is unread, unless the step is a restore
NewAlertsUnread ==
    last'.op # "postRestore" => \A k \in NewAlertKeys : ~MapGet(alerts', k).read

\* an alert that is read and still stored after a step is still read
ReadStaysRead ==
    \A k \in Keys(alerts) \cap Keys(alerts') :
        MapGet(alerts, k).read => MapGet(alerts', k).read

\* C16, as the specification states it: alerts are created unread;
\* markAlertAsRead sets read on the alert with the id and changes nothing
\* else, and changes nothing without such an alert; and no request, admin
\* restore included, takes a read alert back to unread.
C16_ReadNeverReset ==
    [][/\ NewAlertsUnread
       /\ \A u \in Users, id \in PathIds(alerts, currentAlertId) :
             PostAlertRead(u, id) => ReadOnlyThatAlert(id)
       /\ ReadStaysRead]_vars

\* C16, amended: as above, but a read alert stays read under every request
\* other than an accepted admin restore, which loads the read flags of the
\* backup.
C16_ReadKeptButByRestore ==
    [][/\ NewAlertsUnread
       /\ \A u \in Users, id \in PathIds(alerts, currentAlertId) :
             PostAlertRead(u, id) => ReadOnlyThatAlert(id)
       /\ last'.op # "postRestore" => ReadStaysRead]_vars

\* C16's case: of two alerts the evaluator created, the first has been
\* marked as read and the second has not
C16_Witness ==
    /\ last.op = "postAlertRead"
    /\ Keys(alerts) = {1, 2}
    /\ MapGet(alerts, 1).createdAt.isDate
    /\ MapGet(alerts, 2).createdAt.isDate
    /\ MapGet(alerts, 1).read
    /\ ~MapGet(alerts, 2).read

---------------------------------------------------------------------------
(* The alert list *)

\* the stored alerts of user u
AlertKeysOf(u) == {k \in Keys(alerts) : MapGet(alerts, k).userId = u}

\* C17, as the specification states it: GET /api/alerts answers the list of
\* getAlertsByUser, which holds exactly the stored alerts of the user, each
\* once, an alert created later before one created earlier.
C17_AlertsNewestFirst ==
    last.op = "getAlerts"
    => /\ last.status = 200
       /\ Len(last.body) = Cardinality(AlertKeysOf(last.userId))
       /\ {last.body[i].id : i \in 1..Len(last.body)} = AlertKeysOf(last.userId)
       /\ \A i \in 1..Len(last.body) : last.body[i] = MapGet(alerts, last.body[i].id)
       /\ \A i, j \in 1..Len(last.body) :
             last.body[i].createdAt.time > last.body[j].createdAt.time => i < j

\* C18, as the specification states it: a POST /api/transactions whose alert
\* evaluation has failed after the transaction was created has answered 201,
\* and its transaction is in the store.
C18_FailedEvaluationKeepsWrite ==
    \A i \in 1..Len(pending) :
        (pending[i].op = "postTransaction"
         /\ pending[i].pc \in {"failed", "warned", "exited"})
        => /\ pending[i].status = 201
           /\ MapHas(transactions, pending[i].key)

\* the POST /api/transactions requests of `pending`, in the order in which
\* they arrived
Posts == {i \in 1..Len(pending) : pending[i].op = "postTransaction"}

\* whatever the interleaving, there is one transaction per request, under
\* the id the request was given, the ids differ, each record has the amount
\* of its request, each request has created at most one alert and the alerts
\* are those the requests created, and no step of a POST /api/transactions
\* changes a budget
InterleavingKeepsData ==
    /\ [](/\ Len(transactions) = Cardinality(Posts)
          /\ \A i \in Posts :
                /\ MapHas(transactions, pending[i].key)
                /\ MapGet(transactions, pending[i].key).amount = pending[i].amount
                /\ MapGet(transactions, pending[i].key).userId = pending[i].userId
                /\ pending[i].alert # 0 => MapHas(alerts, pending[i].alert)
          /\ \A i, j \in Posts :
                /\ i # j => pending[i].key # pending[j].key
                /\ (i # j /\ pending[i].alert # 0) => pending[i].alert # pending[j].alert
          /\ \A i, j \in 1..Len(transactions) :
                i # j => transactions[i].key # transactions[j].key
          /\ Len(alerts) = Cardinality({ i \in Posts : pending[i].alert # 0 }))
    /\ [][(\/ \E i \in Posts : pending'[i] # pending[i]
           \/ /\ Len(pending') > Len(pending)
              /\ pending'[Len(pending')].op = "postTransaction")
          => /\ budgets' = budgets
             /\ currentBudgetId' = currentBudgetId
             /\ Len(alerts') <= Len(alerts) + 1]_vars

\* the alert of request i when the requests of `pending` are handled one
\* after the other in the order in which they arrived, each to the end of
\* its checkBudgetAlerts: the evaluation finds the budgets and transactions
\* of the requests up to its own
SequentialAlert(i) ==
    LET before(op, key, n) ==
            \E j \in 1..n : pending[j].op = op /\ pending[j].key = key
        check ==
            CheckBudgetAlerts(
                SelectSeq(budgets, LAMBDA b : before("postBudget", b.key, i)),
                SelectSeq(transactions, LAMBDA t : before("postTransaction", t.key, i)),
                categories, pending[i].userId, pending[i].categoryId,
                pending[i].amount, zone)
    IN IF check.inserts = <<>> THEN "none" ELSE check.inserts[1].type

\* the alert request i has created
CreatedAlert(i) ==
    IF pending[i].alert = 0 THEN "none" ELSE MapGet(alerts, pending[i].alert).type

\* C19, as the specification states it: under any interleaving of the
\* POST /api/transactions requests of one user in one budgeted category no
\* data is corrupted, and when all requests have finished the only
\* difference from their sequential execution is a missing or an additional
\* alert: each request has created the alert it creates in the sequential
\* execution, or none where that creates one, or one where that creates none.
C19_InterleavingAsSequential ==
    /\ InterleavingKeepsData
    /\ []((\A i \in 1..Len(pending) : pending[i].pc = "done")
          => \A i \in Posts :
                \/ CreatedAlert(i) = SequentialAlert(i)
                \/ CreatedAlert(i) = "none"
                \/ SequentialAlert(i) = "none")

---------------------------------------------------------------------------
(* Missing categories *)

\* C21: when the category of the created transaction has no record,
\* checkBudgetAlerts still creates the alert its percentage calls for (a
\* warning above 90 up to 100, an error above 100), with 'this category' as
\* the name in title and message; and GET /api/budgets returns a budget whose
\* category has no record with category undefined and with the spent and
\* percentage of the stored expenses of its category that the server takes
\* for the current month.
C21_MissingCategory ==
    /\ (/\ PostedWithBudget
        /\ last.check.limit > 0
        /\ ~MapHas(categories, last.transaction.categoryId)
        /\ Above(last.check.percentage, 90))
       => /\ CreatedAlertIs(IF Above(last.check.percentage, 100)
                            THEN "error" ELSE "warning",
                            IF Above(last.check.percentage, 100)
                            THEN "Budget Alert" ELSE "Budget Warning")
          /\ MapGet(alerts, last.alert).title.name = "this category"
          /\ MapGet(alerts, last.alert).message.name = "this category"
    /\ last.op = "getBudgets"
       => \A i \in 1..Len(last.body) :
             LET b == last.body[i]
             IN ~MapHas(categories, b.categoryId)
                => /\ b.category = ""
                   /\ b.id \in BudgetKeys(last.userId)
                   /\ b.spent = SumOfKeys(transactions,
                                          CountedSpentKeys(last.userId, b.categoryId))
                   /\ b.amount > 0
                      => /\ b.percentage = Times(Div(b.spent, b.amount), 100)
                         /\ NearQuotient(b.percentage, 100 * b.spent, b.amount)

\* C21's case: the category store is empty after a restore; an expense of 95
\* against a budget of 100 has raised an alert named 'this category' (an
\* error: the evaluator's total is 190), and GET /api/budgets lists the
\* budget without category, 95 spent, 95 percent
C21_Witness ==
    /\ categories = <<>>
    /\ last.op = "getBudgets"
    /\ \E i \in 1..Len(last.body) :
          /\ last.body[i].category = ""
          /\ last.body[i].amount = 100
          /\ last.body[i].spent = 95
          /\ last.body[i].percentage = FromInteger(95)
    /\ \E k \in Keys(alerts) :
          /\ MapGet(alerts, k).userId = last.userId
          /\ MapGet(alerts, k).type = "error"
          /\ MapGet(alerts, k).title.name = "this category"
          /\ MapGet(alerts, k).message.name = "this category"

---------------------------------------------------------------------------
(* Evaluation after every creation *)

\* what checkBudgetAlerts asks createAlert for when it runs for the
\* transaction created under key k, after it has been stored
EvaluationOf(k) ==
    LET t == MapGet(transactions', k)
    IN CheckBudgetAlerts(budgets, transactions', categories, t.userId, t.categoryId,
                         t.amount, zone).inserts

\* C22, as the specification states it: every step that creates a
\* transaction, by POST /api/transactions or by a row of an uploaded CSV, runs
\* checkBudgetAlerts once for it after it is stored: the alert the evaluation
\* calls for is added, and nothing else.
C22_EveryCreationEvaluated ==
    [][(/\ currentTransactionId' = currentTransactionId + 1
        /\ MapHas(transactions', currentTransactionId)
        /\ ~MapHas(transactions, currentTransactionId))
       => IF EvaluationOf(currentTransactionId) = <<>>
          THEN alerts' = alerts
          ELSE /\ Len(alerts') = Len(alerts) + 1
               /\ MapHas(alerts', currentAlertId)
               /\ MapGet(alerts', currentAlertId).type
                     = EvaluationOf(currentTransactionId)[1].type
               /\ MapGet(alerts', currentAlertId).userId
                     = MapGet(transactions', currentTransactionId).userId]_vars

---------------------------------------------------------------------------
(* The order of persistence, answer and alert *)

\* the transaction of request i is among the transactions it has read
OwnTransactionRead(i) ==
    \E j \in 1..Len(pending[i].transactionsRead) :
        pending[i].transactionsRead[j].key = pending[i].key

\* the step writes the alert of request i
WritesAlertOf(i) == pending[i].alert = 0 /\ pending'[i].alert # 0

\* the transaction is stored before checkBudgetAlerts reads the transactions,
\* and the answer is given before the alert is written
TransactionThenAnswerThenAlert ==
    /\ [](\A i \in 1..Len(pending) :
             /\ pending[i].pc = "transactions" => OwnTransactionRead(i)
             /\ pending[i].alert # 0 => pending[i].status = 201)
    /\ [][\A i \in 1..Len(pending) :
             WritesAlertOf(i) => (pending[i].status = 201 /\ last' = last)]_vars

\* C23, as the specification states it: the transaction is stored before
\* checkBudgetAlerts reads the user's transactions, the 201 answer is given
\* before the alert is written, and after a crash between the two the
\* transaction is in the store, without an alert of its request.
C23_CrashKeepsTransaction ==
    /\ TransactionThenAnswerThenAlert
    /\ [](\A i \in Posts :
             pending[i].pc \in {"failed", "warned", "exited"}
             => (MapHas(transactions, pending[i].key) /\ pending[i].alert = 0))

---------------------------------------------------------------------------
(* Id counters and restores *)

\* every key of the map is below the id its next create assigns
BelowNextId(s, counter) == \A k \in Keys(s) : k < counter

\* C24, as the specification states it: after any sequence of creates,
\* deletes and restores, the id the next create of each kind assigns is
\* greater than every key of its map, so that no create overwrites a record.
C24_NextIdAboveKeys ==
    /\ BelowNextId(transactions, currentTransactionId)
    /\ BelowNextId(budgets, currentBudgetId)
    /\ BelowNextId(categories, currentCategoryId)
    /\ BelowNextId(alerts, currentAlertId)

---------------------------------------------------------------------------
(* Seeding of the categories *)

\* the number of categories of this name
Named(name) == Cardinality({k \in Keys(categories) : MapGet(categories, k).name = name})

\* the step is one of request i of `pending`
StepOf(i) == i <= Len(pending) /\ pending'[i] # pending[i]

\* the categories of the list that have this name
NamedIn(list, name) == Cardinality({k \in Keys(list) : MapGet(list, k).name = name})

\* C25, as the specification states it: GET /api/categories creates
\* categories only when it has found the store empty, and the seeding happens
\* at most once: whatever the interleaving of the GET /api/categories
\* requests that found the store empty, no default category is ever stored
\* twice, and a request that has seeded answers each default category
\* exactly once (an answer of fewer than eight categories is that of a store
\* a restore has emptied in between, and is left aside).
C25_SeededOnce ==
    /\ [](\A n \in 1..Len(SeedCategoryNames) : Named(SeedCategoryNames[n]) <= 1)
    /\ [][\A i \in 1..Len(pending) :
             /\ (StepOf(i) /\ categories' # categories) => pending[i].read = <<>>
             /\ (/\ StepOf(i)
                 /\ pending'[i].pc = "done"
                 /\ pending[i].seeded
                 /\ Len(last'.body) >= Len(SeedCategoryNames))
                => /\ Len(last'.body) = Len(SeedCategoryNames)
                   /\ \A n \in 1..Len(SeedCategoryNames) :
                         NamedIn(last'.body, SeedCategoryNames[n]) = 1]_vars

---------------------------------------------------------------------------
(* Owners *)

\* the map holds a record of user u under key id
OwnsKey(s, u, id) == MapHas(s, id) /\ MapGet(s, id).userId = u

\* the ids a request can name in this state
NamedIds == 1..(currentTransactionId + currentBudgetId)

\* C26, as the specification states it: a PUT or DELETE on
\* /api/transactions/:id or /api/budgets/:id whose :id is not that of a record
\* of the requesting user (there is no record under it, or the record under
\* it is another user's) is answered 404 and changes no store.
C26_ForeignIdIs404 ==
    [][\A u \in Users, id \in NamedIds :
          /\ ~OwnsKey(transactions, u, id)
             => /\ \A body \in OwnerUpdates :
                      PutTransaction(u, id, body)
                      => (last'.status = 404 /\ UNCHANGED stores)
                /\ DeleteTransaction(u, id) => (last'.status = 404 /\ UNCHANGED stores)
          /\ ~OwnsKey(budgets, u, id)
             => /\ \A body \in OwnerUpdates :
                      PutBudget(u, id, body)
                      => (last'.status = 404 /\ UNCHANGED stores)
                /\ DeleteBudget(u, id) => (last'.status = 404 /\ UNCHANGED stores)]_vars

\* C27, as the specification states it: the userId of a stored transaction
\* or budget never changes: whatever is PUT, a record that stays under its
\* key stays with its user.
C27_OwnerNeverChanges ==
    [][/\ \A k \in Keys(transactions) \cap Keys(transactions') :
             MapGet(transactions', k).userId = MapGet(transactions, k).userId
       /\ \A k \in Keys(budgets) \cap Keys(budgets') :
             MapGet(budgets', k).userId = MapGet(budgets, k).userId]_vars

\* C28, as the specification states it: POST /api/alerts/:id/read by a user
\* for an alert of another user leaves the alert store as it is.
C28_OnlyOwnerMarksRead ==
    [][\A u \in Users, id \in Keys(alerts) :
          (PostAlertRead(u, id) /\ MapGet(alerts, id).userId # u)
          => alerts' = alerts]_vars

---------------------------------------------------------------------------
(* What a user's answers depend on *)

\* the store without the records of the other users
OnlyOf(s, u) == SelectSeq(s, LAMBDA e : e.userId = u)

\* the last request was this read, answered 200
Answer(op) == last.op = op /\ last.status = 200

\* C29: what GET /api/summary, GET /api/budgets, GET /api/transactions and
\* GET /api/alerts answer a user is what they answer on the stores without the
\* records of every other user, with the same categories: the answer is a
\* function of the user's own transactions, budgets and alerts and of the
\* categories, and every record in it is the user's.
C29_OwnRecordsOnly ==
    LET u == last.userId
        txs == OnlyOf(transactions, u)
        bs == OnlyOf(budgets, u)
    IN /\ Answer("getSummary") => last.body = Summary(txs, bs, u, zone)
       /\ Answer("getBudgets")
          => /\ last.body = BudgetsWithDetails(txs, bs, categories, u, zone)
             /\ \A i \in 1..Len(last.body) : last.body[i].userId = u
       /\ Answer("getTransactions")
          => /\ last.body = TransactionsWithCategory(txs, categories, u)
             /\ \A i \in 1..Len(last.body) : last.body[i].userId = u
       /\ last.op = "getAlerts"
          => /\ last.status = 200
             /\ last.body = GetAlertsByUser(OnlyOf(alerts, u), u)
             /\ \A i \in 1..Len(last.body) : last.body[i].userId = u

\* C29's case: both users have a transaction, a budget and an alert, and
\* user 1 is answered a summary with the 95 user 1 has spent, not the 190 of
\* both
C29_Witness ==
    /\ Answer("getSummary")
    /\ last.userId = 1
    /\ last.body.monthlyExpenses = 95
    /\ \A u \in Users :
          /\ OnlyOf(transactions, u) # <<>>
          /\ OnlyOf(budgets, u) # <<>>
          /\ OnlyOf(alerts, u) # <<>>

---------------------------------------------------------------------------
(* Restores that fail *)

\* C30, as the specification states it: a restore that fails (no timestamp,
\* or an entry that cannot be loaded) leaves every store with the records it
\* had; a restore that succeeds leaves each store for which the backup has a
\* list with exactly the records of that list.
C30_RestoreAllOrNothing ==
    [][\A backup \in RestoreBackups :
          PostRestore(backup)
          => IF last'.status # 200
             THEN /\ transactions' = transactions
                  /\ budgets' = budgets
                  /\ categories' = categories
                  /\ alerts' = alerts
             ELSE /\ backup.transactions.isArray
                     => { transactions'[i] : i \in 1..Len(transactions') }
                           = { backup.transactions.list[i] :
                                  i \in 1..Len(backup.transactions.list) }
                  /\ backup.budgets.isArray
                     => { budgets'[i] : i \in 1..Len(budgets') }
                           = { backup.budgets.list[i] : i \in 1..Len(backup.budgets.list) }
                  /\ backup.categories.isArray
                     => { categories'[i] : i \in 1..Len(categories') }
                           = { backup.categories.list[i] :
                                  i \in 1..Len(backup.categories.list) }
                  /\ backup.alerts.isArray
                     => { alerts'[i] : i \in 1..Len(alerts') }
                           = { backup.alerts.list[i] : i \in 1..Len(backup.alerts.list) }]_vars

=============================================================================
